---- MODULE Spec2Model ----
(***************************************************************************)
(* Model of the sports quiz cloud functions: generateQuiz (prompt, model   *)
(* call, sanitize, validate, normalize, persist), submitQuiz (load quiz,   *)
(* grade, persist attempt) and deleteQuiz (soft delete).                   *)
(*                                                                         *)
(* JavaScript strings are modelled as sequences of one-character strings,  *)
(* so that trim(), startsWith(), slice() and charAt() are computed as the  *)
(* code computes them.  Values parsed from the model's JSON output are     *)
(* tagged records (k = "string", "number", "array", "object", "null",      *)
(* "undefined").  Each invocation of a function is a slot of inv; one      *)
(* action is the code that runs between two awaits.                        *)
(***************************************************************************)
EXTENDS Integers, Sequences, FiniteSets, TLC

VARIABLES
    quizzes,        \* Firestore collection 'quizzes': document id -> document
    quizAttempts,   \* Firestore collection 'quizAttempts': document id -> document
    geminiApiKey,   \* module-level memoized credential of generateQuiz.ts
    inv             \* invocation slot -> state of the handler running in it

vars == <<quizzes, quizAttempts, geminiApiKey, inv>>

(***************************************************************************)
(* Bounds of the model.                                                    *)
(***************************************************************************)
MaxArrayLen == 2      \* longest array the generative model returns
MaxQuizzes == 2       \* quiz documents created in Spec
MaxQuizzesGen == 1    \* quiz documents created in SpecGenerate
MaxAttempts == 1      \* attempt documents created in Spec
MaxAttemptsGrade == 2 \* attempt documents created in SpecGrade
MaxAnswers == 2       \* longest submitted answer list in SpecGrade

Procs == {1, 2}

(***************************************************************************)
(* Strings.                                                                *)
(***************************************************************************)
Whitespace == {" ", "\n", "\t"}

RECURSIVE TrimStart(_)
TrimStart(s) ==
    IF s = <<>> THEN s
    ELSE IF Head(s) \in Whitespace THEN TrimStart(Tail(s)) ELSE s

RECURSIVE TrimEnd(_)
TrimEnd(s) ==
    IF s = <<>> THEN s
    ELSE IF s[Len(s)] \in Whitespace THEN TrimEnd(SubSeq(s, 1, Len(s) - 1)) ELSE s

Trim(s) == TrimEnd(TrimStart(s))

StartsWith(s, prefix) ==
    /\ Len(s) >= Len(prefix)
    /\ SubSeq(s, 1, Len(prefix)) = prefix

EndsWith(s, suffix) ==
    /\ Len(s) >= Len(suffix)
    /\ SubSeq(s, Len(s) - Len(suffix) + 1, Len(s)) = suffix

\* s.charAt(0): the first character, or the empty string
CharAt0(s) == IF s = <<>> THEN <<>> ELSE <<s[1]>>

sA == <<"A">>
sB == <<"B">>
sC == <<"C">>
sD == <<"D">>
sTrue == <<"T", "r", "u", "e">>
sFalse == <<"F", "a", "l", "s", "e">>

(***************************************************************************)
(* JSON values.                                                            *)
(***************************************************************************)
JString(s) == [k |-> "string", s |-> s]
JNumber == [k |-> "number"]
\* a number with its value, in tenths (25 is 2.5), and the whole number n
Num(tenths) == [k |-> "number", tenths |-> tenths]
Whole(n) == Num(10 * n)
JNull == [k |-> "null"]
JUndefined == [k |-> "undefined"]
JArray(items) == [k |-> "array", items |-> items]
JObject(q, o, a) == [k |-> "object", question |-> q, options |-> o, answer |-> a]

\* q.question, q.options, q.answer of a parsed element
Prop(q, name) == IF q.k = "object" THEN q[name] ELSE JUndefined


(***************************************************************************)
(* Callers, documents, results.                                            *)
(***************************************************************************)
NoAuth == "<unauthenticated>"     \* request.auth is undefined
Absent == "<undefined>"           \* a field that is not there
Users == {"alice", "root"}
AdminUsers == {"root"}            \* users whose custom claims / token carry admin: true

Falsy(v) == v \in {Absent, ""}

\* request.auth is there (generateQuiz, deleteQuiz), event.auth?.uid is (submitQuiz)
AuthenticatedAlways(auth) == TRUE
Authenticated(auth) == auth # NoAuth

\* request.auth.token.admin === true
HasAdminTokenAlways(auth) == TRUE
HasAdminToken(auth) == auth \in AdminUsers
BlankStrings == {"", " "}         \* strings s with s.trim() === ''

\* data() of a document: a field that was never written reads as undefined
Field(doc, name) == IF name \in DOMAIN doc THEN doc[name] ELSE Absent

\* Auto-ids of .doc(): random and unique.  The model hands out the least
\* ids that no document and no running invocation holds.
DocId(k) == "d" \o ToString(k)

Err(code, message) == [ok |-> FALSE, code |-> code, message |-> message]
\* an error that is not an HttpsError, as the callable wrapper reports it
Uncaught == Err("internal", "INTERNAL")

NoResult == [k |-> "none"]
NoText == [k |-> "none"]
NoDoc == [k |-> "none"]
Idle == [op |-> "none", pc |-> "idle"]

Running(p) == inv[p].pc # "idle"
Done(p) == inv[p].pc = "done"

(***************************************************************************)
(* generateQuiz: the text of the generative model.  A text is its          *)
(* characters, where the one element DocMark stands for the body of the    *)
(* response (a chunk with no whitespace or backtick at its ends), and doc  *)
(* is what that body is: a JSON value, or garbage that JSON.parse rejects. *)
(***************************************************************************)
DocMark == "<doc>"
Garbage == [k |-> "garbage"]
Backtick == "<backtick>"          \* the backtick character
FenceJson == <<Backtick, Backtick, Backtick, "j", "s", "o", "n">>
Fence == <<Backtick, Backtick, Backtick>>

Text(chars, doc) == [chars |-> chars, doc |-> doc]

\* cleanedText
Sanitize(chars) ==
    LET t1 == Trim(chars)
        t2 == IF StartsWith(t1, FenceJson) THEN SubSeq(t1, 8, Len(t1)) ELSE t1
        t3 == IF EndsWith(t2, Fence) THEN SubSeq(t2, 1, Len(t2) - 3) ELSE t2
    IN  Trim(t3)

\* JSON.parse(cleanedText)
JsonParse(text) ==
    IF Sanitize(text.chars) = <<DocMark>> /\ text.doc.k # "garbage"
    THEN [ok |-> TRUE, val |-> text.doc]
    ELSE [ok |-> FALSE]

MinQuestions == 1
MaxQuestions == 20

expectedAnswers(quizType) ==
    IF quizType = "multiple_choice" THEN {sA, sB, sC, sD}
    ELSE IF quizType = "true_false" THEN {sTrue, sFalse}
    ELSE {}

\* expectedAnswers.includes(q.answer)
Includes(expected, v) == v.k = "string" /\ v.s \in expected

NonBlankString(v) == v.k = "string" /\ Len(Trim(v.s)) > 0

\* isValid of the invalidQuestions filter
isValidNoArity(q, quizType) ==
    LET question == Prop(q, "question")
        options == Prop(q, "options")
        answer == Prop(q, "answer")
    IN  /\ NonBlankString(question)
        /\ options.k = "array"
        /\ \A i \in 1..Len(options.items) : NonBlankString(options.items[i])
        /\ Includes(expectedAnswers(quizType), answer)
isValid(q, quizType) ==
    LET question == Prop(q, "question")
        options == Prop(q, "options")
        answer == Prop(q, "answer")
        base == /\ NonBlankString(question)
                /\ options.k = "array"
                /\ \A i \in 1..Len(options.items) : NonBlankString(options.items[i])
    IN  IF quizType = "multiple_choice"
        THEN /\ base
             /\ Len(options.items) = 4
             /\ Includes(expectedAnswers(quizType), answer)
        ELSE IF quizType = "true_false"
        THEN /\ base
             /\ Len(options.items) = 2
             /\ \/ /\ options.items[1] = JString(sTrue)
                   /\ options.items[2] = JString(sFalse)
                \/ /\ options.items[1] = JString(sFalse)
                   /\ options.items[2] = JString(sTrue)
             /\ Includes(expectedAnswers(quizType), answer)
        ELSE base

invalidQuestions(items, quizType) ==
    SelectSeq(items, LAMBDA q : ~isValid(q, quizType))

\* The count check and the shape check on the parsed value: "ok", or why not.
\* Reading .length of null, or .question of a null element, is a TypeError.
CheckOutputAnyLength(val, n, quizType) ==
    IF val.k # "array" THEN "CountMismatch"
    ELSE IF \E i \in 1..Len(val.items) : val.items[i].k = "null" THEN "TypeError"
    ELSE IF invalidQuestions(val.items, quizType) # <<>> THEN "SchemaViolation"
    ELSE "ok"
CheckOutputAnyValid(val, n, quizType) ==
    IF val.k # "array" THEN "CountMismatch"
    ELSE IF Whole(Len(val.items)) # n THEN "CountMismatch"
    ELSE IF \E i \in 1..Len(val.items) : val.items[i].k = "null" THEN "TypeError"
    ELSE IF Len(invalidQuestions(val.items, quizType)) = Len(val.items)
    THEN "SchemaViolation"
    ELSE "ok"
CheckOutput(val, n, quizType) ==
    IF val.k # "array"
    THEN IF val.k = "null" THEN "TypeError" ELSE "CountMismatch"
    ELSE IF Whole(Len(val.items)) # n THEN "CountMismatch"
    ELSE IF \E i \in 1..Len(val.items) : val.items[i].k = "null" THEN "TypeError"
    ELSE IF invalidQuestions(val.items, quizType) # <<>> THEN "SchemaViolation"
    ELSE "ok"

OutputError(reason, quizType) ==
    IF reason = "CountMismatch"
    THEN Err("internal", "AI did not return the expected number of questions or format.")
    ELSE IF reason = "SchemaViolation"
    THEN Err("internal", "Some generated questions were invalid for type " \o quizType \o ".")
    ELSE Uncaught

\* a parsed value as the document holds it: a string as its characters,
\* an array of values as the sequence of them, anything else as it is
Stored(v) ==
    IF v.k = "string" THEN v.s
    ELSE IF v.k = "array"
    THEN [j \in 1..Len(v.items) |->
            IF v.items[j].k = "string" THEN v.items[j].s ELSE v.items[j]]
    ELSE v

\* the map over questionsRaw taken from the last element to the first
questionsReversed(items, quizType, ids) ==
    [i \in 1..Len(items) |->
        [id |-> ids[i],
         text |-> Stored(Prop(items[Len(items) + 1 - i], "question")),
         type |-> quizType,
         options |-> Stored(Prop(items[Len(items) + 1 - i], "options")),
         correctAnswer |-> Stored(Prop(items[Len(items) + 1 - i], "answer"))]]


\* questionsRaw.map(...): the persisted form, ids from .doc().id
questions(items, quizType, ids) ==
    [i \in 1..Len(items) |->
        [id |-> ids[i],
         text |-> Stored(Prop(items[i], "question")),
         type |-> quizType,
         options |-> Stored(Prop(items[i], "options")),
         correctAnswer |-> Stored(Prop(items[i], "answer"))]]

\* the requested visibility, private when none is given
requestedVisibility(req) == IF Falsy(req.visibility) THEN "private" ELSE req.visibility

finalVisibilityAsRequested(isAdmin, requested) == requested
finalVisibility(isAdmin, requested) ==
    IF isAdmin /\ requested = "global" THEN "global" ELSE "private"

\* quizToSave with the owner taken from the payload when it names one
quizToSaveForPayload(req, userId, visibility, qs, quizId) ==
    [id |-> quizId,
     title |-> IF Falsy(req.title) THEN "Generated Quiz - " \o req.category ELSE req.title,
     category |-> req.category,
     difficulty |-> IF Falsy(req.difficulty) THEN "medium" ELSE req.difficulty,
     event |-> "",
     team |-> "",
     country |-> "",
     questions |-> qs,
     createdAt |-> "FieldValue.serverTimestamp()",
     createdBy |-> IF "createdBy" \in DOMAIN req THEN req.createdBy ELSE userId,
     visibility |-> visibility,
     quizType |-> req.quizType]

\* the checks of the request payload, in the order of the code: "ok" or the message
InputError(req) ==
    IF Falsy(req.category) \/ req.category \in BlankStrings
    THEN "Category is required and must be a non-empty string."
    ELSE IF req.numberOfQuestions.k # "number"
            \/ req.numberOfQuestions.tenths = 0
            \/ req.numberOfQuestions.tenths < 10 * MinQuestions
            \/ req.numberOfQuestions.tenths > 10 * MaxQuestions
    THEN "Number of questions is required and must be between 1 and 20."
    ELSE IF Falsy(req.quizType) \/ req.quizType \notin {"multiple_choice", "true_false"}
    THEN "Quiz type is required and must be \"multiple_choice\" or \"true_false\"."
    ELSE "ok"

quizToSave(req, userId, visibility, qs, quizId) ==
    [id |-> quizId,
     title |-> IF Falsy(req.title) THEN "Generated Quiz - " \o req.category ELSE req.title,
     category |-> req.category,
     difficulty |-> IF Falsy(req.difficulty) THEN "medium" ELSE req.difficulty,
     event |-> "",
     team |-> "",
     country |-> "",
     questions |-> qs,
     createdAt |-> "FieldValue.serverTimestamp()",
     createdBy |-> userId,
     visibility |-> visibility,
     quizType |-> req.quizType]

\* what .set(quizToSave) stores: the sentinel becomes the server's time
StoredQuiz(quiz) == [quiz EXCEPT !.createdAt = "<server time>"]


(***************************************************************************)
(* generateQuiz: the handler, one action per stretch between awaits.       *)
(* calls lists the external calls the invocation has started.              *)
(***************************************************************************)
GenLocals(req) ==
    [op |-> "generateQuiz", pc |-> "getUser", req |-> req, calls |-> <<>>,
     isAdmin |-> FALSE, finalVisibility |-> Absent, text |-> NoText,
     quizToSave |-> NoDoc, result |-> NoResult]

\* Array.isArray(v): a list is indexed from 1 in the model; a value that is
\* no list (a string, indexed from 0 as in JavaScript) is not
IsArray(v) == DOMAIN v = 1..Cardinality(DOMAIN v)

\* the ids of the questions of a quiz document, none when it has no list
QuestionIds(quiz) ==
    IF "questions" \in DOMAIN quiz /\ IsArray(quiz.questions)
    THEN {quiz.questions[i].id : i \in 1..Len(quiz.questions)}
    ELSE {}

UsedIdsStored ==
    DOMAIN quizzes \cup DOMAIN quizAttempts
        \cup UNION {QuestionIds(quizzes[id]) : id \in DOMAIN quizzes}
UsedIds ==
    DOMAIN quizzes \cup DOMAIN quizAttempts
        \cup UNION {QuestionIds(quizzes[id]) : id \in DOMAIN quizzes}
        \cup UNION {IF inv[p].op = "generateQuiz" /\ inv[p].quizToSave # NoDoc
                    THEN {inv[p].quizToSave.id} \cup QuestionIds(inv[p].quizToSave)
                    ELSE IF inv[p].op = "submitQuiz" /\ inv[p].attempt # NoDoc
                    THEN {inv[p].attempt.id}
                    ELSE {} : p \in Procs}

StaleIds(count) == [i \in 1..count |-> DocId(i)]

RECURSIVE FreshFrom(_, _)
FreshFrom(k, count) ==
    IF count = 0 THEN <<>>
    ELSE IF DocId(k) \in UsedIds THEN FreshFrom(k + 1, count)
    ELSE <<DocId(k)>> \o FreshFrom(k + 1, count - 1)

\* the next count auto-ids
FreshIds(count) == FreshFrom(1, count)

Fail(p, error) == [inv EXCEPT ![p].pc = "done", ![p].result = error]

\* documents already created plus invocations that may still create one
QuizBudgetUsed ==
    Cardinality(DOMAIN quizzes)
        + Cardinality({p \in Procs : inv[p].op \in {"generateQuiz", "saveQuiz"}})

\* entry: the authentication check, then await authService.getUser(userId)
GenStart(p, Requests, maxQuizzes) ==
    /\ inv[p].pc = "idle"
    /\ QuizBudgetUsed < maxQuizzes
    /\ \E req \in Requests :
          inv' = [inv EXCEPT ![p] =
                    IF ~Authenticated(req.auth)
                    THEN [GenLocals(req) EXCEPT
                            !.pc = "done",
                            !.result = Err("unauthenticated",
                                "The function must be called while authenticated.")]
                    ELSE [GenLocals(req) EXCEPT !.calls = <<"auth.getUser">>]]
    /\ UNCHANGED <<quizzes, quizAttempts, geminiApiKey>>

\* getUser settles (a failed lookup leaves isAdmin false); the payload is
\* validated, the visibility resolved, and getGeminiApiKey() looks at its memo
GenGetUser(p) ==
    /\ inv[p].op = "generateQuiz"
    /\ inv[p].pc = "getUser"
    /\ \E lookupOk \in BOOLEAN :
          LET req == inv[p].req
              isAdmin == lookupOk /\ req.auth \in AdminUsers
              bad == InputError(req)
              known == [inv EXCEPT
                          ![p].isAdmin = isAdmin,
                          ![p].finalVisibility =
                              finalVisibility(isAdmin, requestedVisibility(req))]
          IN  inv' =
                IF bad # "ok"
                THEN [inv EXCEPT ![p].isAdmin = isAdmin, ![p].pc = "done",
                                 ![p].result = Err("invalid-argument", bad)]
                ELSE IF ~Falsy(geminiApiKey)
                THEN [known EXCEPT ![p].pc = "generateContent",
                                   ![p].calls = Append(@, "model.generateContent")]
                ELSE [known EXCEPT ![p].pc = "accessSecret",
                                   ![p].calls = Append(@, "secrets.accessSecretVersion")]
    /\ UNCHANGED <<quizzes, quizAttempts, geminiApiKey>>

SecretPayloads == {"key-1", Absent}

\* accessSecretVersion settles: the payload is memoized, a failure yields undefined
GenSecret(p) ==
    /\ inv[p].op = "generateQuiz"
    /\ inv[p].pc = "accessSecret"
    /\ \/ /\ UNCHANGED geminiApiKey
          /\ inv' = Fail(p, Err("internal",
                        "Server configuration error: Gemini API key missing."))
       \/ \E payload \in SecretPayloads :
             /\ geminiApiKey' = payload
             /\ inv' = IF Falsy(payload)
                       THEN Fail(p, Err("internal",
                                "Server configuration error: Gemini API key missing."))
                       ELSE [inv EXCEPT ![p].pc = "generateContent",
                                        ![p].calls = Append(@, "model.generateContent")]
    /\ UNCHANGED <<quizzes, quizAttempts>>

\* generateContent settles: it throws, or its text is sanitized, parsed,
\* checked and, when it passes, normalized and assembled; then await set(...)
GenRespond(p, Texts) ==
    /\ inv[p].op = "generateQuiz"
    /\ inv[p].pc = "generateContent"
    /\ \/ inv' = Fail(p, Err("internal", "Failed to generate quiz content from AI."))
       \/ \E text \in Texts :
             LET req == inv[p].req
                 n == req.numberOfQuestions
                 parsed == JsonParse(text)
                 reason == CheckOutput(parsed.val, n, req.quizType)
                 got == [inv EXCEPT ![p].text = text]
             IN  IF ~parsed.ok
                 THEN inv' = [got EXCEPT ![p].pc = "done",
                                ![p].result = Err("internal",
                                    "Invalid JSON format from AI. Please try again.")]
                 ELSE IF reason # "ok"
                 THEN inv' = [got EXCEPT ![p].pc = "done",
                                ![p].result = OutputError(reason, req.quizType)]
                 ELSE inv' = [got EXCEPT
                        ![p].pc = "setQuiz",
                        ![p].calls = Append(@, "quizzes.set"),
                        ![p].quizToSave =
                            LET ids == FreshIds(Len(parsed.val.items) + 1)
                            IN  quizToSave(req, req.auth, inv[p].finalVisibility,
                                    questions(parsed.val.items, req.quizType, ids),
                                    ids[Len(ids)])]
    /\ UNCHANGED <<quizzes, quizAttempts, geminiApiKey>>

\* set(quizToSave) settles: the document is there, or the write failed
GenPersist(p) ==
    /\ inv[p].op = "generateQuiz"
    /\ inv[p].pc = "setQuiz"
    /\ \/ /\ quizzes' = (inv[p].quizToSave.id :> StoredQuiz(inv[p].quizToSave)) @@ quizzes
          /\ inv' = [inv EXCEPT ![p].pc = "done",
                                ![p].result = [ok |-> TRUE, quiz |-> inv[p].quizToSave]]
       \/ /\ UNCHANGED quizzes
          /\ inv' = Fail(p, Uncaught)
    /\ UNCHANGED <<quizAttempts, geminiApiKey>>

\* the response has been sent; the slot is free again
Return(p) ==
    /\ Done(p)
    /\ inv' = [inv EXCEPT ![p] = Idle]
    /\ UNCHANGED <<quizzes, quizAttempts, geminiApiKey>>

Init ==
    /\ quizzes = <<>>
    /\ quizAttempts = <<>>
    /\ geminiApiKey = Absent
    /\ inv = [p \in Procs |-> Idle]

(***************************************************************************)
(* Inputs of generateQuiz.                                                 *)
(***************************************************************************)
GenRequest(auth, n, quizType, visibility) ==
    [auth |-> auth, title |-> Absent, category |-> "football", difficulty |-> Absent,
     numberOfQuestions |-> n, quizType |-> quizType, visibility |-> visibility]

mcOptions ==
    <<JString(<<"A", ".", " ", "x">>), JString(<<"B", ".", " ", "y">>),
      JString(<<"C", ".", " ", "z">>), JString(<<"D", ".", " ", "w">>)>>
tfOptions == <<JString(sTrue), JString(sFalse)>>
ftOptions == <<JString(sFalse), JString(sTrue)>>

ValidMC == JObject(JString(<<"Q", "?">>), JArray(mcOptions), JString(sA))
ValidMCB == JObject(JString(<<"R", "?">>), JArray(mcOptions), JString(sB))
ValidTF == JObject(JString(<<"S", ".">>), JArray(tfOptions), JString(sTrue))
ValidFT == JObject(JString(<<"T", ".">>), JArray(ftOptions), JString(sFalse))

\* each differs from a valid element in one place
BrokenElements ==
    { [ValidMC EXCEPT !.question = JString(<<" ">>)],
      [ValidMC EXCEPT !.question = JNumber],
      [ValidMC EXCEPT !.options = JArray(SubSeq(mcOptions, 1, 3))],
      [ValidMC EXCEPT !.options = JArray(Append(mcOptions, JString(<<"E", ".">>)))],
      [ValidMC EXCEPT !.options = JArray([mcOptions EXCEPT ![2] = JString(<<" ">>)])],
      [ValidMC EXCEPT !.options = JArray([mcOptions EXCEPT ![3] = JNumber])],
      [ValidMC EXCEPT !.options = JUndefined],
      [ValidMC EXCEPT !.answer = JString(<<"E">>)],
      [ValidMC EXCEPT !.answer = JString(<<"a">>)],
      [ValidMC EXCEPT !.answer = JString(<<"A", ".", " ", "x">>)],
      [ValidMC EXCEPT !.answer = JUndefined],
      [ValidTF EXCEPT !.question = JString(<<>>)],
      [ValidTF EXCEPT !.options = JArray(<<JString(sTrue), JString(sTrue)>>)],
      [ValidTF EXCEPT !.options = JArray(<<JString(<<"t", "r", "u", "e">>), JString(sFalse)>>)],
      [ValidTF EXCEPT !.options = JArray(<<JString(sTrue), JString(sFalse), JString(sTrue)>>)],
      [ValidTF EXCEPT !.answer = JString(<<"Y", "e", "s">>)],
      [ValidTF EXCEPT !.answer = JNumber],
      JNull }

Elements == {ValidMC, ValidTF, ValidFT} \cup BrokenElements

SeqsUpTo(S, n) == UNION {[1..m -> S] : m \in 0..n}

Plain(doc) == Text(<<DocMark>>, doc)
Fenced(doc) == Text(FenceJson \o <<"\n", DocMark, "\n">> \o Fence, doc)

Texts ==
    {Plain(JArray(items)) : items \in SeqsUpTo(Elements, MaxArrayLen)}
        \cup {Plain(Garbage), Plain(JNull), Plain(JObject(JUndefined, JUndefined, JUndefined)),
              Text(<<>>, NoDoc),
              Text(<<" ", DocMark, "\n">>, JArray(<<ValidTF>>)),
              Fenced(JArray(<<ValidMC>>)), Fenced(Garbage),
              Text(Fence \o <<"\n", DocMark, "\n">> \o Fence, JArray(<<ValidMC>>)),
              Text(<<"O", "k", ":", " ", DocMark>>, JArray(<<ValidTF>>))}

\* values of numberOfQuestions outside 1..20, not whole, or no number at all
OddCounts ==
    {Whole(0), Whole(-1), Whole(MaxQuestions + 1), Num(25), JString(<<"3">>), JUndefined}

\* requests that differ from a valid one in one field, and one without a caller
FailingGenRequests ==
    {[GenRequest("alice", Whole(1), "true_false", Absent) EXCEPT !.category = c] :
        c \in {Absent, "", " "}}
        \cup {GenRequest("alice", n, "multiple_choice", Absent) : n \in OddCounts}
        \cup {GenRequest("alice", Whole(1), t, Absent) : t \in {Absent, "essay"}}
        \cup {GenRequest(NoAuth, Whole(0), "essay", Absent)}

GenRequests ==
    {GenRequest("alice", Whole(n), quizType, Absent) :
        n \in 1..2, quizType \in {"multiple_choice", "true_false"}}
        \cup {GenRequest("alice", Whole(MaxQuestions), "true_false", Absent)}
        \cup FailingGenRequests

(***************************************************************************)
(* submitQuiz: grading.                                                    *)
(***************************************************************************)
NotFoundMark == <<"N", "/", "A", " ", "(", "Q", "u", "e", "s", "t", "i", "o", "n", " ",
                  "N", "o", "t", " ", "F", "o", "u", "n", "d", ")">>

\* correctAnswersMap: question id -> correct answer; a later question with the
\* same id overwrites an earlier one
correctAnswersMap(quizQuestions) ==
    [id \in {quizQuestions[i].id : i \in 1..Len(quizQuestions)} |->
        quizQuestions[CHOOSE i \in 1..Len(quizQuestions) :
                        /\ quizQuestions[i].id = id
                        /\ \A j \in (i + 1)..Len(quizQuestions) : quizQuestions[j].id # id
                     ].correctAnswer]

\* quizQuestions.find(q => q.id === questionId)?.type
FindType(quizQuestions, questionId) ==
    IF \E i \in 1..Len(quizQuestions) : quizQuestions[i].id = questionId
    THEN quizQuestions[CHOOSE i \in 1..Len(quizQuestions) :
                        /\ quizQuestions[i].id = questionId
                        /\ \A j \in 1..(i - 1) : quizQuestions[j].id # questionId].type
    ELSE Absent

isCorrectExact(quizQuestions, questionId, selectedOption, correctOption) ==
    selectedOption = correctOption
isCorrect(quizQuestions, questionId, selectedOption, correctOption) ==
    IF FindType(quizQuestions, questionId) = "multiple_choice"
    THEN CharAt0(selectedOption) = correctOption
    ELSE IF FindType(quizQuestions, questionId) = "true_false"
    THEN selectedOption = correctOption
    ELSE FALSE

\* one turn of the loop over userAnswers: the detail that is pushed
DetailUnknownSkipped(quizQuestions, userAnswer) ==
    LET map == correctAnswersMap(quizQuestions)
    IN  IF userAnswer.questionId \in DOMAIN map
        THEN <<[questionId |-> userAnswer.questionId,
                userAnswer |-> userAnswer.selectedOption,
                correctAnswer |-> map[userAnswer.questionId],
                isCorrect |-> isCorrect(quizQuestions, userAnswer.questionId,
                                  userAnswer.selectedOption, map[userAnswer.questionId])]>>
        ELSE <<>>
Detail(quizQuestions, userAnswer) ==
    LET map == correctAnswersMap(quizQuestions)
    IN  IF userAnswer.questionId \in DOMAIN map
        THEN <<[questionId |-> userAnswer.questionId,
                userAnswer |-> userAnswer.selectedOption,
                correctAnswer |-> map[userAnswer.questionId],
                isCorrect |-> isCorrect(quizQuestions, userAnswer.questionId,
                                  userAnswer.selectedOption, map[userAnswer.questionId])]>>
        ELSE <<[questionId |-> userAnswer.questionId,
                userAnswer |-> userAnswer.selectedOption,
                correctAnswer |-> NotFoundMark,
                isCorrect |-> FALSE]>>

\* the loop: correctCount and attemptDetails after the answers from i on
RECURSIVE GradeLoop(_, _, _, _, _)
GradeLoop(quizQuestions, userAnswers, i, correctCount, attemptDetails) ==
    IF i > Len(userAnswers)
    THEN [correctCount |-> correctCount, attemptDetails |-> attemptDetails]
    ELSE LET d == Detail(quizQuestions, userAnswers[i])
         IN  GradeLoop(quizQuestions, userAnswers, i + 1,
                 IF d # <<>> /\ d[1].isCorrect THEN correctCount + 1 ELSE correctCount,
                 attemptDetails \o d)

Grade(quizQuestions, userAnswers) == GradeLoop(quizQuestions, userAnswers, 1, 0, <<>>)

\* Math.round(ms / 1000)
RoundSeconds(ms) == (2 * ms + 1000) \div 2000

Nows == {5000, 6000}        \* Date.now()

totalQuestionsOfAnswers(quizQuestions, userAnswers) == Len(userAnswers)
totalQuestions(quizQuestions, userAnswers) == Len(quizQuestions)

quizAttemptData(id, userId, quizId, quizQuestions, userAnswers, timeSpent) ==
    [id |-> id,
     userId |-> userId,
     quizId |-> quizId,
     score |-> Grade(quizQuestions, userAnswers).correctCount,
     totalQuestions |-> totalQuestions(quizQuestions, userAnswers),
     answers |-> Grade(quizQuestions, userAnswers).attemptDetails,
     timeSpent |-> timeSpent,
     completedAt |-> "FieldValue.serverTimestamp()"]

reviewDetailsReversed(attemptDetails) ==
    [i \in 1..Len(attemptDetails) |->
        [questionId |-> attemptDetails[Len(attemptDetails) + 1 - i].questionId,
         selectedOption |-> attemptDetails[Len(attemptDetails) + 1 - i].userAnswer,
         correctOption |-> attemptDetails[Len(attemptDetails) + 1 - i].correctAnswer,
         isCorrect |-> attemptDetails[Len(attemptDetails) + 1 - i].isCorrect]]
reviewDetails(attemptDetails) ==
    [i \in 1..Len(attemptDetails) |->
        [questionId |-> attemptDetails[i].questionId,
         selectedOption |-> attemptDetails[i].userAnswer,
         correctOption |-> attemptDetails[i].correctAnswer,
         isCorrect |-> attemptDetails[i].isCorrect]]

SubmitResponse(attempt) ==
    [ok |-> TRUE,
     message |-> "Quiz submitted successfully!",
     score |-> [correct |-> attempt.score,
                incorrect |-> attempt.totalQuestions - attempt.score,
                total |-> attempt.totalQuestions],
     attemptId |-> attempt.id,
     reviewDetails |-> reviewDetails(attempt.answers),
     timeSpentSeconds |-> attempt.timeSpent]

StoredAttempt(attempt) == [attempt EXCEPT !.completedAt = "<server time>"]

\* the internal error of the catch; its third argument, the details, goes to
\* the caller with the code and the message
Unexpected(details) ==
    [ok |-> FALSE, code |-> "internal",
     message |-> "An unexpected error occurred during quiz submission.",
     details |-> details]

\* an error thrown by a store call: an Error that is no HttpsError
StoreCauses == {"UNAVAILABLE", "DEADLINE_EXCEEDED"}
StoreError(cause) == [ok |-> FALSE, code |-> "<Error>", message |-> cause]
StoreErrors == {StoreError(cause) : cause \in StoreCauses}

\* the catch of submitQuiz: an HttpsError goes on as it is, anything else
\* becomes the internal error
CatchRewrapAll(error) == Unexpected(error.message)
Catch(error) == IF error.code = "<Error>" THEN Unexpected(error.message) ELSE error

\* quizDoc of a read that has not settled; a snapshot
NoSnapshot == [k |-> "none"]
Snapshot(exists) == [exists |-> exists]

SubLocals(req) ==
    [op |-> "submitQuiz", pc |-> "getQuiz", req |-> req, calls |-> <<"quizzes.get">>,
     quizDoc |-> NoSnapshot, quizData |-> NoDoc, attempt |-> NoDoc, result |-> NoResult]

AttemptBudgetUsed ==
    Cardinality(DOMAIN quizAttempts)
        + Cardinality({p \in Procs : inv[p].op \in {"submitQuiz", "saveQuizAttempt"}})

\* entry: the authentication check and the argument check, then await get()
SubStart(p, Requests, maxAttempts) ==
    /\ inv[p].pc = "idle"
    /\ AttemptBudgetUsed < maxAttempts
    /\ \E req \in Requests :
          inv' = [inv EXCEPT ![p] =
                    IF ~Authenticated(req.auth)
                    THEN [SubLocals(req) EXCEPT
                            !.pc = "done", !.calls = <<>>,
                            !.result = Err("unauthenticated",
                                "Authentication required. User not logged in.")]
                    ELSE IF Falsy(req.quizId) \/ req.userAnswers = <<>>
                            \/ req.quizStartTime = 0
                    THEN [SubLocals(req) EXCEPT
                            !.pc = "done", !.calls = <<>>,
                            !.result = Err("invalid-argument",
                                "quizId, userAnswers (non-empty array), and quizStartTime are required.")]
                    ELSE SubLocals(req)]
    /\ UNCHANGED <<quizzes, quizAttempts, geminiApiKey>>

gradableRejectDeleted(quizData) ==
    IF Field(quizData, "status") = "deleted" THEN "deleted"
    ELSE IF "questions" \notin DOMAIN quizData
            \/ ~IsArray(quizData.questions)
            \/ quizData.questions = <<>>
    THEN "invalid" ELSE "ok"
gradableEmptyToo(quizData) ==
    IF "questions" \notin DOMAIN quizData \/ ~IsArray(quizData.questions)
    THEN "invalid" ELSE "ok"
\* the check of the loaded quiz data: "ok" when it can be scored
gradable(quizData) ==
    IF "questions" \notin DOMAIN quizData
            \/ ~IsArray(quizData.questions)
            \/ quizData.questions = <<>>
    THEN "invalid" ELSE "ok"

\* get() settles: the quiz is graded, the attempt assembled; then await set(...)
SubGrade(p) ==
    /\ inv[p].op = "submitQuiz"
    /\ inv[p].pc = "getQuiz"
    /\ \/ \E error \in StoreErrors : inv' = Fail(p, Catch(error))
       \/ LET req == inv[p].req
          IN  IF req.quizId \notin DOMAIN quizzes
              THEN inv' = [inv EXCEPT
                              ![p].pc = "done",
                              ![p].quizDoc = Snapshot(FALSE),
                              ![p].result = Catch(Err("not-found", "Quiz not found."))]
              ELSE IF gradable(quizzes[req.quizId]) # "ok"
              THEN inv' = [inv EXCEPT
                              ![p].pc = "done",
                              ![p].quizDoc = Snapshot(TRUE),
                              ![p].quizData = quizzes[req.quizId],
                              ![p].result = Catch(Err("internal",
                                  "Quiz data is invalid on server. Cannot score."))]
              ELSE \E now \in Nows :
                      inv' = [inv EXCEPT
                                ![p].pc = "setAttempt",
                                ![p].calls = Append(@, "quizAttempts.set"),
                                ![p].quizDoc = Snapshot(TRUE),
                                ![p].quizData = quizzes[req.quizId],
                                ![p].attempt =
                                    quizAttemptData(FreshIds(1)[1], req.auth, req.quizId,
                                        quizzes[req.quizId].questions, req.userAnswers,
                                        RoundSeconds(now - req.quizStartTime))]
    /\ UNCHANGED <<quizzes, quizAttempts, geminiApiKey>>

\* set(quizAttemptData) settles: the attempt is there, or the write failed
SubPersist(p) ==
    /\ inv[p].op = "submitQuiz"
    /\ inv[p].pc = "setAttempt"
    /\ \/ /\ quizAttempts' =
                (inv[p].attempt.id :> StoredAttempt(inv[p].attempt)) @@ quizAttempts
          /\ inv' = [inv EXCEPT ![p].pc = "done",
                                ![p].result = SubmitResponse(inv[p].attempt)]
       \/ /\ UNCHANGED quizAttempts
          /\ \E error \in StoreErrors : inv' = Fail(p, Catch(error))
    /\ UNCHANGED <<quizzes, geminiApiKey>>

(***************************************************************************)
(* deleteQuiz: soft delete.                                                *)
(***************************************************************************)
DelLocals(req) ==
    [op |-> "deleteQuiz", pc |-> "getQuiz", req |-> req, calls |-> <<"quizzes.get">>,
     result |-> NoResult]

\* the catch of deleteQuiz: the message of the error goes into the message
DeleteFailed(error) == Err("internal", "Failed to soft-delete quiz: " \o error.message)

\* entry: authentication, the admin claim of the token, the quizId; then await get()
DelStart(p, Requests) ==
    /\ inv[p].pc = "idle"
    /\ \E req \in Requests :
          inv' = [inv EXCEPT ![p] =
                    IF ~Authenticated(req.auth)
                    THEN [DelLocals(req) EXCEPT
                            !.pc = "done", !.calls = <<>>,
                            !.result = Err("unauthenticated",
                                "The request is not authenticated. Please log in.")]
                    ELSE IF ~HasAdminToken(req.auth)
                    THEN [DelLocals(req) EXCEPT
                            !.pc = "done", !.calls = <<>>,
                            !.result = Err("permission-denied",
                                "You do not have permission to delete quizzes. Only administrators can perform this action.")]
                    ELSE IF req.quizId = Absent \/ req.quizId \in BlankStrings
                    THEN [DelLocals(req) EXCEPT
                            !.pc = "done", !.calls = <<>>,
                            !.result = Err("invalid-argument",
                                "The quizId is required and must be a non-empty string.")]
                    ELSE DelLocals(req)]
    /\ UNCHANGED <<quizzes, quizAttempts, geminiApiKey>>

\* get() settles: existence and visibility are checked; then await update(...)
DelCheck(p) ==
    /\ inv[p].op = "deleteQuiz"
    /\ inv[p].pc = "getQuiz"
    /\ \/ \E error \in StoreErrors : inv' = Fail(p, DeleteFailed(error))
       \/ LET id == inv[p].req.quizId
          IN  inv' =
                IF id \notin DOMAIN quizzes
                THEN Fail(p, Err("not-found", "Quiz with ID " \o id \o " not found."))
                ELSE IF Field(quizzes[id], "visibility") # "global"
                THEN Fail(p, Err("permission-denied",
                        "You can only delete global quizzes. Quiz " \o id \o " is not global."))
                ELSE [inv EXCEPT ![p].pc = "updateQuiz",
                                 ![p].calls = Append(@, "quizzes.update")]
    /\ UNCHANGED <<quizzes, quizAttempts, geminiApiKey>>

\* what update({status: 'deleted'}) makes of the document
SoftDeleted(doc) == [status |-> "deleted"] @@ doc

\* update(...) settles
DelUpdate(p) ==
    /\ inv[p].op = "deleteQuiz"
    /\ inv[p].pc = "updateQuiz"
    /\ \/ /\ inv[p].req.quizId \in DOMAIN quizzes
          /\ quizzes' = [quizzes EXCEPT ![inv[p].req.quizId] = SoftDeleted(@)]
          /\ inv' = [inv EXCEPT ![p].pc = "done",
                        ![p].result = [ok |-> TRUE, success |-> TRUE,
                            message |-> "Quiz " \o inv[p].req.quizId
                                            \o " successfully marked as deleted."]]
       \/ /\ UNCHANGED quizzes
          /\ \E error \in StoreErrors : inv' = Fail(p, DeleteFailed(error))
    /\ UNCHANGED <<quizAttempts, geminiApiKey>>

(***************************************************************************)
(* The security rules of the store, which every write of a client passes.  *)
(***************************************************************************)
\* function isAdmin(): request.auth.token.admin == true
isAdmin(auth) == HasAdminToken(auth)

\* allow create on /quizzes/{quizId}
AllowCreate(auth, new) ==
    /\ auth # NoAuth
    /\ Field(new, "status") = "active"
    /\ Field(new, "createdBy") = auth
    /\ Field(new, "visibility") \in {"global", "private"}

\* the update rule without its "must be active to update" condition
AllowUpdateOfDeleted(auth, old, new) ==
    /\ auth # NoAuth
    /\ \/ isAdmin(auth)
       \/ /\ Field(old, "createdBy") = auth
          /\ Field(new, "status") = "active"
          /\ "visibility" \in DOMAIN old
          /\ Field(new, "visibility") = old.visibility

\* allow update on /quizzes/{quizId}: an admin, or the creator of an active
\* quiz who keeps it active and keeps its visibility
AllowUpdate(auth, old, new) ==
    /\ auth # NoAuth
    /\ \/ isAdmin(auth)
       \/ /\ Field(old, "createdBy") = auth
          /\ Field(old, "status") = "active"
          /\ Field(new, "status") = "active"
          /\ "visibility" \in DOMAIN old
          /\ Field(new, "visibility") = old.visibility

PermissionDenied ==
    [ok |-> FALSE, code |-> "permission-denied",
     message |-> "Missing or insufficient permissions."]

\* setDoc(doc(db, 'quizzes', id), payload, {merge: true}) as the rules see it
\* and as it changes the collection
Allowed(auth, id, payload) ==
    IF id \in DOMAIN quizzes
    THEN AllowUpdate(auth, quizzes[id], payload @@ quizzes[id])
    ELSE AllowCreate(auth, payload)

Merged(id, payload) ==
    IF id \in DOMAIN quizzes
    THEN [quizzes EXCEPT ![id] = payload @@ @]
    ELSE (id :> payload) @@ quizzes

\* the write settles: applied, denied by the rules, or failed on the way
SetDocSettles(p, id, payload, done) ==
    \/ /\ Allowed(inv[p].req.auth, id, payload)
       /\ quizzes' = Merged(id, payload)
       /\ inv' = [inv EXCEPT ![p].pc = "done", ![p].result = done]
    \/ /\ ~Allowed(inv[p].req.auth, id, payload)
       /\ UNCHANGED quizzes
       /\ inv' = Fail(p, PermissionDenied)
    \/ /\ UNCHANGED quizzes
       /\ \E error \in StoreErrors : inv' = Fail(p, error)

(***************************************************************************)
(* The client's operations on the quizzes collection: saveQuiz,            *)
(* updateQuizVisibility, updateQuizStatus.                                 *)
(***************************************************************************)
ClientError(message) == [ok |-> FALSE, code |-> "<Error>", message |-> message]
ClientDone == [ok |-> TRUE]

ClientLocals(op, req, pc, call) ==
    [op |-> op, pc |-> pc, req |-> req, calls |-> <<call>>, result |-> NoResult]

\* quizDataForFirestore of a quiz saved for the first time
NewQuizData(req) ==
    [createdAt |-> "Timestamp.now()",
     createdBy |-> IF req.auth = NoAuth THEN "anonymous" ELSE req.auth,
     status |-> "active"] @@ req.quiz

\* quizDataForFirestore of a quiz that has an id
QuizData(req) ==
    IF "createdAt" \in DOMAIN req.quiz
    THEN req.quiz ELSE [createdAt |-> "Timestamp.now()"] @@ req.quiz

\* saveQuiz up to its await: addDoc for a quiz without id, else setDoc
SaveStart(p, Requests, maxQuizzes) ==
    /\ inv[p].pc = "idle"
    /\ \E req \in Requests :
          /\ Falsy(Field(req.quiz, "id")) => QuizBudgetUsed < maxQuizzes
          /\ inv' = [inv EXCEPT ![p] =
                    IF Falsy(Field(req.quiz, "id"))
                    THEN ClientLocals("saveQuiz", req, "addDoc", "quizzes.addDoc")
                    ELSE ClientLocals("saveQuiz", req, "setDoc", "quizzes.setDoc")]
    /\ UNCHANGED <<quizzes, quizAttempts, geminiApiKey>>

\* addDoc settles; an error is caught and kept in the store's state
SaveAdd(p) ==
    /\ inv[p].op = "saveQuiz"
    /\ inv[p].pc = "addDoc"
    /\ \/ /\ AllowCreate(inv[p].req.auth, NewQuizData(inv[p].req))
          /\ quizzes' = (FreshIds(1)[1] :> NewQuizData(inv[p].req)) @@ quizzes
          /\ inv' = [inv EXCEPT ![p].pc = "done", ![p].result = ClientDone]
       \/ /\ ~AllowCreate(inv[p].req.auth, NewQuizData(inv[p].req))
          /\ UNCHANGED quizzes
          /\ inv' = Fail(p, PermissionDenied)
       \/ /\ UNCHANGED quizzes
          /\ \E error \in StoreErrors : inv' = Fail(p, error)
    /\ UNCHANGED <<quizAttempts, geminiApiKey>>

\* setDoc(..., {merge: true}) of saveQuiz settles
SaveSet(p) ==
    /\ inv[p].op = "saveQuiz"
    /\ inv[p].pc = "setDoc"
    /\ SetDocSettles(p, inv[p].req.quiz.id, QuizData(inv[p].req), ClientDone)
    /\ UNCHANGED <<quizAttempts, geminiApiKey>>

\* the entry of updateQuizVisibility and updateQuizStatus: a signed-in user
\* whose profile says isAdmin; then await setDoc
AdminStart(p, op, req, what) ==
    inv' = [inv EXCEPT ![p] =
              IF req.auth = NoAuth
              THEN [ClientLocals(op, req, "done", "none") EXCEPT
                      !.calls = <<>>,
                      !.result = ClientError("User not authenticated.")]
              ELSE IF ~req.isAdmin
              THEN [ClientLocals(op, req, "done", "none") EXCEPT
                      !.calls = <<>>,
                      !.result = ClientError(
                          "Unauthorized: Only administrators can change quiz "
                              \o what \o ".")]
              ELSE ClientLocals(op, req, "setDoc", "quizzes.setDoc")]

VisibilityStart(p, Requests) ==
    /\ inv[p].pc = "idle"
    /\ \E req \in Requests : AdminStart(p, "updateQuizVisibility", req, "visibility")
    /\ UNCHANGED <<quizzes, quizAttempts, geminiApiKey>>

\* setDoc(quizRef, {visibility: newVisibility}, {merge: true}) settles
VisibilitySet(p) ==
    /\ inv[p].op = "updateQuizVisibility"
    /\ inv[p].pc = "setDoc"
    /\ SetDocSettles(p, inv[p].req.quizId,
            [visibility |-> inv[p].req.newVisibility], ClientDone)
    /\ UNCHANGED <<quizAttempts, geminiApiKey>>

StatusStart(p, Requests) ==
    /\ inv[p].pc = "idle"
    /\ \E req \in Requests : AdminStart(p, "updateQuizStatus", req, "status")
    /\ UNCHANGED <<quizzes, quizAttempts, geminiApiKey>>

\* setDoc(quizRef, {status: newStatus}, {merge: true}) settles
StatusSet(p) ==
    /\ inv[p].op = "updateQuizStatus"
    /\ inv[p].pc = "setDoc"
    /\ SetDocSettles(p, inv[p].req.quizId, [status |-> inv[p].req.newStatus], ClientDone)
    /\ UNCHANGED <<quizAttempts, geminiApiKey>>

\* allow create on /quizAttempts/{attemptId}
AllowCreateAttempt(auth, new) == auth # NoAuth /\ Field(new, "userId") = auth

\* attemptToSave
AttemptToSave(attempt) == [completedAt |-> "Timestamp.now()"] @@ attempt

\* saveQuizAttempt up to await addDoc
AttemptStart(p, Requests, maxAttempts) ==
    /\ inv[p].pc = "idle"
    /\ AttemptBudgetUsed < maxAttempts
    /\ \E req \in Requests :
          inv' = [inv EXCEPT ![p] =
                    ClientLocals("saveQuizAttempt", req, "addDoc", "quizAttempts.addDoc")]
    /\ UNCHANGED <<quizzes, quizAttempts, geminiApiKey>>

\* addDoc settles; the id of the new document is returned, an error rethrown
AttemptAdd(p) ==
    /\ inv[p].op = "saveQuizAttempt"
    /\ inv[p].pc = "addDoc"
    /\ \/ /\ AllowCreateAttempt(inv[p].req.auth, AttemptToSave(inv[p].req.attempt))
          /\ quizAttempts' =
                (FreshIds(1)[1] :> AttemptToSave(inv[p].req.attempt)) @@ quizAttempts
          /\ inv' = [inv EXCEPT ![p].pc = "done",
                                ![p].result = [ok |-> TRUE, attemptId |-> FreshIds(1)[1]]]
       \/ /\ ~AllowCreateAttempt(inv[p].req.auth, AttemptToSave(inv[p].req.attempt))
          /\ UNCHANGED quizAttempts
          /\ inv' = Fail(p, PermissionDenied)
       \/ /\ UNCHANGED quizAttempts
          /\ \E error \in StoreErrors : inv' = Fail(p, error)
    /\ UNCHANGED <<quizzes, geminiApiKey>>

(***************************************************************************)
(* deleteQuiz as functions/src/deleteQuiz.ts has it: the same entry, the   *)
(* same checks of the document, then delete() in place of update().        *)
(***************************************************************************)
HardDeleteFailed(error) == Err("internal", "Failed to delete quiz: " \o error.message)

\* get() settles: existence and visibility are checked; then await delete()
HardCheck(p) ==
    /\ inv[p].op = "deleteQuiz"
    /\ inv[p].pc = "getQuiz"
    /\ \/ \E error \in StoreErrors : inv' = Fail(p, HardDeleteFailed(error))
       \/ LET id == inv[p].req.quizId
          IN  inv' =
                IF id \notin DOMAIN quizzes
                THEN Fail(p, Err("not-found", "Quiz with ID " \o id \o " not found."))
                ELSE IF Field(quizzes[id], "visibility") # "global"
                THEN Fail(p, Err("permission-denied",
                        "You can only delete global quizzes. Quiz " \o id \o " is not global."))
                ELSE [inv EXCEPT ![p].pc = "deleteDoc",
                                 ![p].calls = Append(@, "quizzes.delete")]
    /\ UNCHANGED <<quizzes, quizAttempts, geminiApiKey>>

\* delete() settles: the document is gone
HardDelete(p) ==
    /\ inv[p].op = "deleteQuiz"
    /\ inv[p].pc = "deleteDoc"
    /\ \/ /\ quizzes' = [id \in DOMAIN quizzes \ {inv[p].req.quizId} |-> quizzes[id]]
          /\ inv' = [inv EXCEPT ![p].pc = "done",
                        ![p].result = [ok |-> TRUE, success |-> TRUE,
                            message |-> "Quiz " \o inv[p].req.quizId
                                            \o " successfully deleted."]]
       \/ /\ UNCHANGED quizzes
          /\ \E error \in StoreErrors : inv' = Fail(p, HardDeleteFailed(error))
    /\ UNCHANGED <<quizAttempts, geminiApiKey>>

NextGenerate ==
    \E p \in {1} :
        \/ GenStart(p, GenRequests, MaxQuizzesGen)
        \/ GenGetUser(p)
        \/ GenSecret(p)
        \/ GenRespond(p, Texts)
        \/ GenPersist(p)
        \/ Return(p)

SpecGenerate == Init /\ [][NextGenerate]_vars


(***************************************************************************)
(* Inputs of submitQuiz and deleteQuiz.  The answers a caller submits are  *)
(* drawn from the questions of the quiz it names, plus a question id no    *)
(* quiz has, with selections of the kind the quiz's type takes.            *)
(***************************************************************************)
UnknownId == "nope"

Selections(quizType) ==
    IF quizType = "multiple_choice"
    THEN {<<"A">>, <<"A", ".", " ", "x">>, <<"B", ".", " ", "y">>, <<>>}
    ELSE {sTrue, sFalse, <<"t", "r", "u", "e">>, <<"T">>}

AnswersFor(quiz, sels) ==
    {[questionId |-> id, selectedOption |-> sel] :
        id \in QuestionIds(quiz) \cup {UnknownId}, sel \in sels}

SubRequest(auth, quizId, userAnswers, quizStartTime) ==
    [auth |-> auth, quizId |-> quizId, userAnswers |-> userAnswers,
     quizStartTime |-> quizStartTime]

StrayAnswer == <<[questionId |-> UnknownId, selectedOption |-> <<"A">>]>>

\* every answer list up to MaxAnswers for every stored quiz, and the requests
\* that fail before grading
SubRequests ==
    {SubRequest("alice", id, answers, 1400) :
        id \in DOMAIN quizzes,
        answers \in UNION {SeqsUpTo(AnswersFor(quizzes[q], Selections(quizzes[q].quizType)),
                                    MaxAnswers) : q \in DOMAIN quizzes}}
        \cup {SubRequest(NoAuth, UnknownId, StrayAnswer, 1400),
              SubRequest("alice", UnknownId, StrayAnswer, 1400),
              SubRequest("alice", Absent, StrayAnswer, 1400),
              SubRequest("alice", UnknownId, StrayAnswer, 0)}

GradeTexts ==
    {Plain(JArray(<<ValidMC>>)), Plain(JArray(<<ValidMC, ValidMCB>>)),
     Plain(JArray(<<ValidTF>>)), Plain(JArray(<<ValidFT, ValidTF>>))}

NextGrade ==
    \E p \in {1} :
        \/ GenStart(p, GenRequests, MaxQuizzesGen)
        \/ GenGetUser(p)
        \/ GenSecret(p)
        \/ GenRespond(p, GradeTexts)
        \/ GenPersist(p)
        \/ SubStart(p, SubRequests, MaxAttemptsGrade)
        \/ SubGrade(p)
        \/ SubPersist(p)
        \/ Return(p)

SpecGrade == Init /\ [][NextGrade]_vars


(***************************************************************************)
(* The whole system: every function, invocations interleaved at their      *)
(* awaits, over a small set of inputs.                                     *)
(***************************************************************************)
SystemGenRequests ==
    {GenRequest("root", Whole(1), "true_false", "global"),
     GenRequest("alice", Whole(1), "multiple_choice", "global"),
     GenRequest(NoAuth, Whole(0), "true_false", Absent),
     GenRequest("alice", Whole(0), "multiple_choice", Absent)}

SystemTexts ==
    {Plain(JArray(<<ValidMC>>)), Plain(JArray(<<ValidTF>>)), Plain(Garbage)}

SystemSelections(quizType) ==
    IF quizType = "multiple_choice"
    THEN {<<"A", ".", " ", "x">>, <<"B", ".", " ", "y">>}
    ELSE {sTrue, sFalse}

SystemSubRequests ==
    {SubRequest("alice", id, <<answer>>, 1400) :
        id \in DOMAIN quizzes,
        answer \in UNION {AnswersFor(quizzes[q], SystemSelections(quizzes[q].quizType)) :
                            q \in DOMAIN quizzes}}
        \cup {SubRequest(NoAuth, UnknownId, StrayAnswer, 1400),
              SubRequest("alice", UnknownId, StrayAnswer, 1400)}

DelRequest(auth, quizId) == [auth |-> auth, quizId |-> quizId]

SystemDelRequests ==
    {DelRequest(auth, id) :
        auth \in {NoAuth, "alice", "root"}, id \in DOMAIN quizzes \cup {UnknownId, ""}}

Next ==
    \E p \in Procs :
        \/ GenStart(p, SystemGenRequests, MaxQuizzes)
        \/ GenGetUser(p)
        \/ GenSecret(p)
        \/ GenRespond(p, SystemTexts)
        \/ GenPersist(p)
        \/ SubStart(p, SystemSubRequests, MaxAttempts)
        \/ SubGrade(p)
        \/ SubPersist(p)
        \/ DelStart(p, SystemDelRequests)
        \/ DelCheck(p)
        \/ DelUpdate(p)
        \/ Return(p)

Spec == Init /\ [][Next]_vars


(***************************************************************************)
(* The collections over their life: the functions and the client's         *)
(* operations, one invocation at a time.                                   *)
(***************************************************************************)
MaxQuizzesStore == 1
MaxAttemptsStore == 2

\* a value of questions that is no list: the string 'x'
NotAList == [i \in {0} |-> "x"]

\* a quiz the client holds that was never saved, with no questions to score
DraftQuiz ==
    [title |-> "draft", category |-> "football", quizType |-> "true_false",
     visibility |-> "private"]

Drafts ==
    {DraftQuiz, [questions |-> NotAList] @@ DraftQuiz, [questions |-> <<>>] @@ DraftQuiz}

\* the client's copy of a stored quiz: the document's data under its id,
\* with status 'active' when the document has none
ClientCopy(id) ==
    [id |-> id,
     status |-> IF Falsy(Field(quizzes[id], "status")) THEN "active"
                ELSE quizzes[id].status] @@ quizzes[id]

SaveRequest(auth, quiz) == [auth |-> auth, quiz |-> quiz]

SaveRequests ==
    {SaveRequest(auth, quiz) : auth \in {"alice", NoAuth}, quiz \in Drafts}
        \cup {SaveRequest(auth, quiz) :
                auth \in {"alice", "root"},
                quiz \in UNION {{ClientCopy(id), [questions |-> <<>>] @@ ClientCopy(id)} :
                                    id \in DOMAIN quizzes}}

\* the caller of a client operation: the signed-in user and the isAdmin
\* field of the profile the auth store holds
StatusRequests ==
    {[auth |-> auth, isAdmin |-> flag, quizId |-> id, newStatus |-> st] :
        auth \in {"alice", "root"}, flag \in BOOLEAN,
        id \in DOMAIN quizzes \cup {UnknownId}, st \in {"active", "deleted"}}
        \cup {[auth |-> NoAuth, isAdmin |-> FALSE, quizId |-> UnknownId,
                newStatus |-> "deleted"]}

VisibilityRequests ==
    {[auth |-> auth, isAdmin |-> flag, quizId |-> id, newVisibility |-> v] :
        auth \in {"alice", "root"}, flag \in BOOLEAN,
        id \in DOMAIN quizzes \cup {UnknownId}, v \in {"global", "private"}}
        \cup {[auth |-> NoAuth, isAdmin |-> FALSE, quizId |-> UnknownId,
                newVisibility |-> "global"]}

\* quizStartTime values: before the server's clock and after it
StartTimes == {1400, 9000}

StoreSubRequests ==
    {SubRequest("alice", id, StrayAnswer, start) :
        id \in DOMAIN quizzes \cup {UnknownId}, start \in StartTimes}
        \cup {SubRequest("alice", id, <<answer>>, 1400) :
                id \in {q \in DOMAIN quizzes : gradable(quizzes[q]) = "ok"},
                answer \in UNION {AnswersFor(quizzes[q], SystemSelections(quizzes[q].quizType)) :
                                    q \in {q \in DOMAIN quizzes : gradable(quizzes[q]) = "ok"}}}
        \cup {SubRequest(NoAuth, Absent, <<>>, 0),
              SubRequest("alice", Absent, StrayAnswer, 1400)}

\* an attempt scored on the client, for the caller or under another user's id
ClientAttempt(userId) ==
    [userId |-> userId, quizId |-> UnknownId, score |-> 0, totalQuestions |-> 0,
     answers |-> <<>>, timeSpent |-> 0, originalQuizConfig |-> "config"]

AttemptRequests ==
    {[auth |-> "alice", attempt |-> ClientAttempt(userId)] : userId \in {"alice", "root"}}

NextStore ==
    \E p \in {1} :
        \/ GenStart(p, SystemGenRequests, MaxQuizzesStore)
        \/ GenGetUser(p)
        \/ GenSecret(p)
        \/ GenRespond(p, SystemTexts)
        \/ GenPersist(p)
        \/ SaveStart(p, SaveRequests, MaxQuizzesStore)
        \/ SaveAdd(p)
        \/ SaveSet(p)
        \/ VisibilityStart(p, VisibilityRequests)
        \/ VisibilitySet(p)
        \/ StatusStart(p, StatusRequests)
        \/ StatusSet(p)
        \/ SubStart(p, StoreSubRequests, MaxAttemptsStore)
        \/ SubGrade(p)
        \/ SubPersist(p)
        \/ AttemptStart(p, AttemptRequests, MaxAttemptsStore)
        \/ AttemptAdd(p)
        \/ DelStart(p, SystemDelRequests)
        \/ DelCheck(p)
        \/ DelUpdate(p)
        \/ Return(p)

SpecStore == Init /\ [][NextStore]_vars

\* the operations on the quizzes collection with deleteQuiz as
\* functions/src/deleteQuiz.ts has it
NextHardDelete ==
    \E p \in {1} :
        \/ GenStart(p, SystemGenRequests, MaxQuizzesStore)
        \/ GenGetUser(p)
        \/ GenSecret(p)
        \/ GenRespond(p, SystemTexts)
        \/ GenPersist(p)
        \/ VisibilityStart(p, VisibilityRequests)
        \/ VisibilitySet(p)
        \/ StatusStart(p, StatusRequests)
        \/ StatusSet(p)
        \/ DelStart(p, SystemDelRequests)
        \/ HardCheck(p)
        \/ HardDelete(p)
        \/ Return(p)

SpecHardDelete == Init /\ [][NextHardDelete]_vars


(***************************************************************************)
(* Concurrent invocations of the functions: two slots, each running        *)
(* generateQuiz or submitQuiz, interleaved at their awaits, with enough    *)
(* documents for two quizzes and two attempts.                             *)
(***************************************************************************)
MaxQuizzesRace == 2
MaxAttemptsRace == 2

RaceGenRequests == {GenRequest("alice", Whole(1), "true_false", Absent)}

RaceTexts == {Plain(JArray(<<ValidTF>>))}

\* one answer for a question of the quiz named, or a quiz that is not there
RaceSubRequests ==
    {SubRequest("alice", id, <<[questionId |-> q, selectedOption |-> sTrue]>>, 1400) :
        id \in DOMAIN quizzes, q \in UNION {QuestionIds(quizzes[i]) : i \in DOMAIN quizzes}}
        \cup {SubRequest("alice", UnknownId, StrayAnswer, 1400)}

NextRace ==
    \E p \in Procs :
        \/ GenStart(p, RaceGenRequests, MaxQuizzesRace)
        \/ GenGetUser(p)
        \/ GenSecret(p)
        \/ GenRespond(p, RaceTexts)
        \/ GenPersist(p)
        \/ SubStart(p, RaceSubRequests, MaxAttemptsRace)
        \/ SubGrade(p)
        \/ SubPersist(p)
        \/ Return(p)

SpecRace == Init /\ [][NextRace]_vars


(***************************************************************************)
(* Properties of generateQuiz.                                             *)
(***************************************************************************)
Range(seq) == {seq[i] : i \in 1..Len(seq)}

\* the invocation in slot p has received the text of the generative model
Received(p) == inv[p].op = "generateQuiz" /\ inv[p].text # NoText

\* that text parsed, and to an array; the elements of the array
ParsedArray(p) == JsonParse(inv[p].text).ok /\ JsonParse(inv[p].text).val.k = "array"
Items(p) == JsonParse(inv[p].text).val.items

NonEmptyText(v) == v.k = "string" /\ \E i \in 1..Len(v.s) : v.s[i] \notin Whitespace

\* The shape invariant of a question, as the specification words it:
\* multiple_choice: non-empty question, exactly 4 non-empty option strings,
\* answer one of A, B, C, D; true_false: non-empty question, options the pair
\* True/False in either order, answer True or False.
ShapeInvariant(q, quizType) ==
    /\ q.k = "object"
    /\ NonEmptyText(q.question)
    /\ q.options.k = "array"
    /\ IF quizType = "multiple_choice"
       THEN /\ Len(q.options.items) = 4
            /\ \A i \in 1..4 : NonEmptyText(q.options.items[i])
            /\ q.answer \in {JString(sA), JString(sB), JString(sC), JString(sD)}
       ELSE /\ q.options.items \in {<<JString(sTrue), JString(sFalse)>>,
                                    <<JString(sFalse), JString(sTrue)>>}
            /\ q.answer \in {JString(sTrue), JString(sFalse)}

AllShaped(p) ==
    \A i \in 1..Len(Items(p)) : ShapeInvariant(Items(p)[i], inv[p].req.quizType)

\* the validation step let the array through: the quiz was assembled
Accepted(p) == inv[p].quizToSave # NoDoc

\* C1: whenever the model's output parses to an array with at least one
\* element that violates the shape invariant of the requested quiz type, the
\* invocation ends with an error, assembles no quiz from any part of the
\* array, and never starts the write of a quiz document.
C1_SchemaRejectionTotal ==
    \A p \in Procs :
        (Received(p) /\ ParsedArray(p) /\ ~AllShaped(p))
            => /\ inv[p].pc = "done"
               /\ ~inv[p].result.ok
               /\ ~Accepted(p)
               /\ "quizzes.set" \notin Range(inv[p].calls)

\* a two-element array of the requested length, first element valid, second
\* not, was rejected as a schema violation and the store is empty
C1_Witness ==
    \E p \in Procs :
        /\ Received(p) /\ ParsedArray(p)
        /\ Len(Items(p)) = 2 /\ inv[p].req.numberOfQuestions = Whole(2)
        /\ ShapeInvariant(Items(p)[1], inv[p].req.quizType)
        /\ ~ShapeInvariant(Items(p)[2], inv[p].req.quizType)
        /\ inv[p].pc = "done"
        /\ inv[p].result = OutputError("SchemaViolation", inv[p].req.quizType)
        /\ quizzes = <<>>

\* every step before the write has succeeded for the invocation in slot p
AllChecksPassed(p) ==
    /\ inv[p].op = "generateQuiz"
    /\ ~Falsy(geminiApiKey)
    /\ inv[p].calls \in
          {<<"auth.getUser", "model.generateContent", "quizzes.set">>,
           <<"auth.getUser", "secrets.accessSecretVersion", "model.generateContent",
             "quizzes.set">>}
    /\ Received(p) /\ ParsedArray(p)
    /\ Whole(Len(Items(p))) = inv[p].req.numberOfQuestions
    /\ AllShaped(p)

DocCount == Cardinality(DOMAIN quizzes) + Cardinality(DOMAIN quizAttempts)

C2_Step ==
    /\ quizzes' # quizzes =>
          \E p \in Procs :
              /\ AllChecksPassed(p)
              /\ inv[p].pc = "setQuiz"
              /\ inv'[p].pc = "done" /\ inv'[p].result.ok
              /\ inv[p].quizToSave.id \notin DOMAIN quizzes
              /\ quizzes' = (inv[p].quizToSave.id :> StoredQuiz(inv[p].quizToSave)) @@ quizzes
    /\ \A p \in Procs :
          (inv'[p].op = "generateQuiz" /\ inv[p].pc # "done" /\ inv'[p].pc = "done"
              /\ ~inv'[p].result.ok)
            => /\ quizzes' = quizzes
               /\ DocCount' = DocCount

\* C2: a step changes the quiz collection only by the one write of an
\* invocation whose credential lookup, generation call, sanitizing, parsing,
\* count check and shape check have all succeeded, and that write adds the
\* one assembled document; a step on which an invocation ends with an error
\* leaves the number of documents in the store unchanged.
C2_NoPartialPersist == [][C2_Step]_vars

\* an invocation that had to fetch the credential has written its
\* two-question quiz and answered with it
C2_Witness ==
    \E p \in Procs :
        /\ inv[p].op = "generateQuiz" /\ inv[p].pc = "done" /\ inv[p].result.ok
        /\ "secrets.accessSecretVersion" \in Range(inv[p].calls)
        /\ inv[p].quizToSave.id \in DOMAIN quizzes
        /\ Len(quizzes[inv[p].quizToSave.id].questions) = 2
        /\ DocCount = 1

\* C4 (as amended): the validation step accepts a parsed array only if its
\* length equals numberOfQuestions, and it accepts it if and only if its
\* length equals numberOfQuestions and every element satisfies the shape
\* invariant of the requested quiz type.
C4_CountInvariant ==
    \A p \in Procs :
        (Received(p) /\ ParsedArray(p))
            => /\ Accepted(p) => Whole(Len(Items(p))) = inv[p].req.numberOfQuestions
               /\ Accepted(p) <=>
                     (Whole(Len(Items(p))) = inv[p].req.numberOfQuestions /\ AllShaped(p))

\* C4 as the specification words it: accepted if and only if the length
\* equals numberOfQuestions
C4_Original ==
    \A p \in Procs :
        (Received(p) /\ ParsedArray(p))
            => (Accepted(p) <=> Whole(Len(Items(p))) = inv[p].req.numberOfQuestions)

\* one well-shaped element where two were requested: rejected by the count check
C4_Witness ==
    \E p \in Procs :
        /\ Received(p) /\ ParsedArray(p)
        /\ Len(Items(p)) = 1 /\ inv[p].req.numberOfQuestions = Whole(2)
        /\ AllShaped(p)
        /\ ~Accepted(p)
        /\ inv[p].pc = "done"
        /\ inv[p].result = OutputError("CountMismatch", inv[p].req.quizType)

\* C9 as the specification words it: the document a successful generateQuiz
\* has just written has lifecycle status 'active'
C9_OnlyActive ==
    \A p \in Procs :
        (inv[p].op = "generateQuiz" /\ inv[p].pc = "done" /\ inv[p].result.ok)
            => Field(quizzes[inv[p].quizToSave.id], "status") = "active"

\* a generateQuiz invocation that has written its quiz and answered with it
Generated(p) == inv[p].op = "generateQuiz" /\ inv[p].pc = "done" /\ inv[p].result.ok

\* C3 (as amended): the persisted quiz has the requested visibility when the
\* lookup of the caller's claims succeeded and found the administrative
\* capability; in every other case, a caller without the capability and a
\* caller whose lookup failed alike, it is private.
C3_VisibilityEnforcement ==
    \A p \in Procs :
        Generated(p) =>
            quizzes[inv[p].quizToSave.id].visibility =
                IF inv[p].req.auth \in AdminUsers /\ inv[p].isAdmin
                THEN requestedVisibility(inv[p].req)
                ELSE "private"

\* C3 as the specification words it: private for a caller without the
\* capability, the requested value for a caller who holds it
C3_Original ==
    \A p \in Procs :
        Generated(p) =>
            quizzes[inv[p].quizToSave.id].visibility =
                IF inv[p].req.auth \in AdminUsers
                THEN requestedVisibility(inv[p].req)
                ELSE "private"

\* both cases at once: an administrator's quiz persisted global as requested,
\* and another caller's request for global persisted private
C3_Witness ==
    \E p, q \in Procs :
        /\ Generated(p) /\ Generated(q)
        /\ inv[p].req.auth \in AdminUsers /\ inv[p].isAdmin
        /\ inv[p].req.visibility = "global"
        /\ quizzes[inv[p].quizToSave.id].visibility = "global"
        /\ inv[q].req.auth \notin AdminUsers
        /\ inv[q].req.visibility = "global"
        /\ quizzes[inv[q].quizToSave.id].visibility = "private"


(***************************************************************************)
(* Properties of submitQuiz together with deleteQuiz.                      *)
(***************************************************************************)
IsDeleted(doc) == Field(doc, "status") = "deleted"

C10_Step ==
    \* no step, a soft delete included, removes a quiz or alters its answer key
    /\ \A id \in DOMAIN quizzes :
          /\ id \in DOMAIN quizzes'
          /\ quizzes'[id].questions = quizzes[id].questions
    \* the read of a soft-deleted quiz, unless the store call itself failed,
    \* is followed by the grading an active quiz gets
    /\ \A p \in Procs :
          (/\ inv[p].op = "submitQuiz" /\ inv[p].pc = "getQuiz"
           /\ inv'[p].pc # "getQuiz"
           /\ inv[p].req.quizId \in DOMAIN quizzes
           /\ IsDeleted(quizzes[inv[p].req.quizId])
           /\ inv'[p].result \notin {Unexpected(c) : c \in StoreCauses})
            => /\ inv'[p].pc = "setAttempt"
               /\ inv'[p].result = NoResult
               /\ inv'[p].attempt.quizId = inv[p].req.quizId
               /\ inv'[p].attempt.answers =
                     Grade(quizzes[inv[p].req.quizId].questions,
                           inv[p].req.userAnswers).attemptDetails
               /\ inv'[p].attempt.score =
                     Grade(quizzes[inv[p].req.quizId].questions,
                           inv[p].req.userAnswers).correctCount
    \* and a successful answer comes with the attempt persisted
    /\ \A p \in Procs :
          (/\ inv[p].op = "submitQuiz" /\ inv[p].pc = "setAttempt"
           /\ inv'[p].pc = "done" /\ inv'[p].result.ok)
            => /\ inv[p].attempt.id \notin DOMAIN quizAttempts
               /\ inv[p].attempt.id \in DOMAIN quizAttempts'
               /\ quizAttempts'[inv[p].attempt.id] = StoredAttempt(inv[p].attempt)

\* C10: soft deletion leaves the quiz and its answer key in place, a
\* submission against a quiz with status 'deleted' is graded against that
\* key exactly as one against an active quiz (it fails only if a store call
\* fails), and its successful answer comes with the attempt persisted.
C10_GradingIgnoresStatus == [][C10_Step]_vars

\* a submission against a soft-deleted quiz was graded, one answer correct,
\* and its attempt is in the store
C10_Witness ==
    \E p \in Procs :
        /\ inv[p].op = "submitQuiz" /\ inv[p].pc = "done" /\ inv[p].result.ok
        /\ IsDeleted(inv[p].quizData)
        /\ IsDeleted(quizzes[inv[p].req.quizId])
        /\ inv[p].result.score.correct = 1
        /\ inv[p].attempt.id \in DOMAIN quizAttempts


(***************************************************************************)
(* Properties of submitQuiz: grading.                                      *)
(***************************************************************************)
\* the invocation in slot p has read its quiz and graded the answers
Graded(p) == inv[p].op = "submitQuiz" /\ inv[p].attempt # NoDoc

\* it has also persisted the attempt and answered
Answered(p) == Graded(p) /\ inv[p].pc = "done" /\ inv[p].result.ok

Key(p) == inv[p].quizData.questions
Answers(p) == inv[p].req.userAnswers
Known(p, answer) == answer.questionId \in QuestionIds(inv[p].quizData)

\* the question of the key an answer names
QuestionOf(p, answer) ==
    Key(p)[CHOOSE i \in 1..Len(Key(p)) : Key(p)[i].id = answer.questionId]

\* C5: once the quiz is read, an answer list with question ids the quiz does
\* not have is graded to the end and raises no request-level error: there is
\* one detail per answer, an unknown answer is recorded with the sentinel and
\* isCorrect = false, and the details and the correct count of the other
\* answers are those of grading the list without the unknown answers.
C5_UnknownQuestionTolerance ==
    \A p \in Procs :
        (inv[p].op = "submitQuiz" /\ inv[p].quizData # NoDoc)
            => /\ Graded(p)
               /\ inv[p].pc = "done" => (inv[p].result.ok
                                            \/ inv[p].result \in {Unexpected(c) : c \in StoreCauses})
               /\ Len(inv[p].attempt.answers) = Len(Answers(p))
               /\ \A i \in 1..Len(Answers(p)) :
                     ~Known(p, Answers(p)[i]) =>
                         inv[p].attempt.answers[i] =
                             [questionId |-> Answers(p)[i].questionId,
                              userAnswer |-> Answers(p)[i].selectedOption,
                              correctAnswer |-> NotFoundMark,
                              isCorrect |-> FALSE]
               /\ LET known == SelectSeq(Answers(p), LAMBDA a : Known(p, a))
                      graded == SelectSeq(inv[p].attempt.answers,
                                          LAMBDA d : d.questionId \in QuestionIds(inv[p].quizData))
                  IN  /\ graded = Grade(Key(p), known).attemptDetails
                      /\ inv[p].attempt.score = Grade(Key(p), known).correctCount

\* an unknown answer first, a correct known answer second: answered, the
\* first with the sentinel, one correct
C5_Witness ==
    \E p \in Procs :
        /\ Answered(p)
        /\ Len(Answers(p)) = 2
        /\ ~Known(p, Answers(p)[1]) /\ Known(p, Answers(p)[2])
        /\ inv[p].result.reviewDetails[1].correctOption = NotFoundMark
        /\ ~inv[p].result.reviewDetails[1].isCorrect
        /\ inv[p].result.reviewDetails[2].isCorrect
        /\ inv[p].result.score.correct = 1

\* the comparison the specification asks for, by the type of the question
Matches(question, selectedOption) ==
    IF question.type = "multiple_choice"
    THEN selectedOption # <<>> /\ <<selectedOption[1]>> = question.correctAnswer
    ELSE selectedOption = question.correctAnswer

\* C6: the detail of an answer whose question is in the key carries the
\* stored correct answer, and is correct exactly when, for multiple_choice,
\* the leading character of selectedOption is the stored letter and, for
\* true_false, selectedOption is the stored string; the answer to the caller
\* says the same.
C6_TypeAwareComparison ==
    \A p \in Procs :
        Graded(p) =>
            /\ Len(inv[p].attempt.answers) = Len(Answers(p))
            /\ \A i \in 1..Len(Answers(p)) :
                  Known(p, Answers(p)[i]) =>
                      /\ inv[p].attempt.answers[i].correctAnswer =
                            QuestionOf(p, Answers(p)[i]).correctAnswer
                      /\ inv[p].attempt.answers[i].isCorrect <=>
                            Matches(QuestionOf(p, Answers(p)[i]), Answers(p)[i].selectedOption)
                      /\ Answered(p) =>
                            /\ inv[p].result.reviewDetails[i].correctOption =
                                  QuestionOf(p, Answers(p)[i]).correctAnswer
                            /\ inv[p].result.reviewDetails[i].isCorrect <=>
                                  Matches(QuestionOf(p, Answers(p)[i]),
                                          Answers(p)[i].selectedOption)

\* key A: a selection with the label and its text is correct, the one with
\* another label is incorrect and shown with correctOption A
C6_Witness ==
    \E p \in Procs :
        /\ Answered(p)
        /\ Len(Answers(p)) = 2
        /\ Answers(p)[1].questionId = Answers(p)[2].questionId
        /\ Known(p, Answers(p)[1])
        /\ QuestionOf(p, Answers(p)[1]).type = "multiple_choice"
        /\ QuestionOf(p, Answers(p)[1]).correctAnswer = sA
        /\ Answers(p)[1].selectedOption = <<"A", ".", " ", "x">>
        /\ Answers(p)[2].selectedOption = <<"B", ".", " ", "y">>
        /\ inv[p].result.reviewDetails[1].isCorrect
        /\ ~inv[p].result.reviewDetails[2].isCorrect
        /\ inv[p].result.reviewDetails[2].correctOption = sA

\* the answers a stored attempt was graded from, read back from its details
InputOf(attempt) ==
    [i \in 1..Len(attempt.answers) |->
        [questionId |-> attempt.answers[i].questionId,
         selectedOption |-> attempt.answers[i].userAnswer]]

\* the number of answers of a list that match the key
MatchCount(p) ==
    Cardinality({i \in 1..Len(Answers(p)) :
                    /\ Known(p, Answers(p)[i])
                    /\ Matches(QuestionOf(p, Answers(p)[i]), Answers(p)[i].selectedOption)})

\* C7: the counts of a grading are a function of the stored quiz and the
\* submitted list alone (whatever the time of the call, and equal to those of
\* every attempt stored before for the same quiz and the same list), and
\* reviewDetails has one entry per submitted answer, in submission order,
\* each with that answer's questionId and selectedOption as submitted.
C7_DeterminismAndOrder ==
    \A p \in Procs :
        Graded(p) =>
            /\ inv[p].attempt.score = MatchCount(p)
            /\ inv[p].attempt.totalQuestions = Len(Key(p))
            /\ InputOf(inv[p].attempt) = Answers(p)
            /\ \A id \in DOMAIN quizAttempts :
                  (/\ quizAttempts[id].quizId = inv[p].req.quizId
                   /\ InputOf(quizAttempts[id]) = Answers(p))
                    => /\ quizAttempts[id].score = inv[p].attempt.score
                       /\ quizAttempts[id].totalQuestions = inv[p].attempt.totalQuestions
                       /\ quizAttempts[id].answers = inv[p].attempt.answers
            /\ Answered(p) =>
                  /\ inv[p].result.score.correct = MatchCount(p)
                  /\ inv[p].result.score.incorrect = Len(Key(p)) - MatchCount(p)
                  /\ Len(inv[p].result.reviewDetails) = Len(Answers(p))
                  /\ \A i \in 1..Len(Answers(p)) :
                        /\ inv[p].result.reviewDetails[i].questionId =
                              Answers(p)[i].questionId
                        /\ inv[p].result.reviewDetails[i].selectedOption =
                              Answers(p)[i].selectedOption

\* two different answers were submitted, the second a second time over the
\* same question, and came back in that order; an earlier attempt with the
\* same list is in the store with the same score
C7_Witness ==
    \E p \in Procs :
        /\ Answered(p)
        /\ Len(Answers(p)) = 2
        /\ Answers(p)[1] # Answers(p)[2]
        /\ inv[p].result.reviewDetails[1].selectedOption = Answers(p)[1].selectedOption
        /\ inv[p].result.reviewDetails[2].selectedOption = Answers(p)[2].selectedOption
        /\ \E id \in DOMAIN quizAttempts :
              /\ id # inv[p].attempt.id
              /\ quizAttempts[id].quizId = inv[p].req.quizId
              /\ InputOf(quizAttempts[id]) = Answers(p)
              /\ quizAttempts[id].score = inv[p].result.score.correct

\* C8: in a successful answer, score.total is the number of questions of the
\* stored quiz, score.correct is the number of details with isCorrect = true,
\* and score.incorrect is score.total - score.correct; the stored attempt
\* carries the same score and total.
C8_ScoreArithmetic ==
    \A p \in Procs :
        Answered(p) =>
            /\ inv[p].result.score.total = Len(quizzes[inv[p].req.quizId].questions)
            /\ inv[p].result.score.correct =
                  Cardinality({i \in 1..Len(inv[p].result.reviewDetails) :
                                  inv[p].result.reviewDetails[i].isCorrect})
            /\ inv[p].result.score.incorrect =
                  inv[p].result.score.total - inv[p].result.score.correct
            /\ quizAttempts[inv[p].result.attemptId].score = inv[p].result.score.correct
            /\ quizAttempts[inv[p].result.attemptId].totalQuestions =
                  inv[p].result.score.total

\* one correct answer to a quiz of two questions: 1 correct, 1 incorrect, 2 in all
C8_Witness ==
    \E p \in Procs :
        /\ Answered(p)
        /\ Len(Answers(p)) = 1
        /\ Len(quizzes[inv[p].req.quizId].questions) = 2
        /\ inv[p].result.score = [correct |-> 1, incorrect |-> 1, total |-> 2]


(***************************************************************************)
(* Properties of the error paths.                                          *)
(***************************************************************************)
GenerationFailed == Err("internal", "Failed to generate quiz content from AI.")

\* C12 as the specification words it: when the call of the generative model
\* has thrown, or has returned no text, the invocation ends with the generic
\* failed-to-generate error and has assembled and written nothing.
C12_GenerationCallFailed ==
    \A p \in Procs :
        (/\ inv[p].op = "generateQuiz"
         /\ "model.generateContent" \in Range(inv[p].calls)
         /\ inv[p].pc # "generateContent"
         /\ inv[p].text = NoText \/ inv[p].text.chars = <<>>)
            => /\ inv[p].pc = "done"
               /\ inv[p].result = GenerationFailed
               /\ ~Accepted(p)
               /\ "quizzes.set" \notin Range(inv[p].calls)

\* the payload of the request in slot p fails the validation the
\* specification asks for: category, count in range, quiz type
InvalidPayload(p) ==
    \/ Falsy(inv[p].req.category) \/ inv[p].req.category \in BlankStrings
    \/ inv[p].req.numberOfQuestions.k # "number"
    \/ inv[p].req.numberOfQuestions.tenths < 10 * MinQuestions
    \/ inv[p].req.numberOfQuestions.tenths > 10 * MaxQuestions
    \/ inv[p].req.quizType \notin {"multiple_choice", "true_false"}

\* C16 as the specification words it: an authenticated generateQuiz
\* invocation with an invalid payload makes no external call, and ends with
\* invalid-argument.
C16_InvalidArgumentBeforeCalls ==
    \A p \in Procs :
        (inv[p].op = "generateQuiz" /\ inv[p].req.auth # NoAuth /\ InvalidPayload(p))
            => /\ inv[p].calls = <<>>
               /\ inv[p].pc = "done"
               /\ inv[p].result.code = "invalid-argument"

\* a whole number from 1 to 20
WholeInRange(v) ==
    /\ v.k = "number"
    /\ v.tenths % 10 = 0
    /\ v.tenths >= 10 * MinQuestions
    /\ v.tenths <= 10 * MaxQuestions

\* C17 as the specification words it: once the payload has been validated,
\* an invocation whose numberOfQuestions is not a whole number from 1 to 20
\* has ended with invalid-argument and never calls the generative model.
C17_CountDomain ==
    \A p \in Procs :
        (/\ inv[p].op = "generateQuiz" /\ inv[p].req.auth # NoAuth
         /\ inv[p].pc # "getUser"
         /\ ~WholeInRange(inv[p].req.numberOfQuestions))
            => /\ inv[p].pc = "done"
               /\ inv[p].result.code = "invalid-argument"
               /\ "model.generateContent" \notin Range(inv[p].calls)

\* the invocation in slot p is a submitQuiz whose read of the quiz has settled
\* and found it there or not
QuizRead(p, exists) ==
    inv[p].op = "submitQuiz" /\ inv[p].quizDoc = Snapshot(exists)

NoAttemptWritten(p) ==
    inv[p].attempt = NoDoc /\ "quizAttempts.set" \notin Range(inv[p].calls)

\* C13: a submitQuiz whose quizId resolves to no document has ended with the
\* not-found error as thrown, a code that is none of invalid-argument,
\* internal and unauthenticated, and it has assembled and written no attempt.
C13_NotFound ==
    \A p \in Procs :
        QuizRead(p, FALSE)
            => /\ inv[p].pc = "done"
               /\ inv[p].result = Err("not-found", "Quiz not found.")
               /\ inv[p].result.code
                    \notin {"invalid-argument", "internal", "unauthenticated"}
               /\ NoAttemptWritten(p)

C13_Witness ==
    \E p \in Procs :
        /\ QuizRead(p, FALSE)
        /\ inv[p].req.quizId \notin DOMAIN quizzes
        /\ DOMAIN quizzes # {}

\* a quiz document whose questions are missing, no list, or an empty list
Unscorable(doc) ==
    \/ "questions" \notin DOMAIN doc
    \/ ~IsArray(doc.questions)
    \/ Len(doc.questions) = 0

InvalidQuizState == Err("internal", "Quiz data is invalid on server. Cannot score.")

\* C14: a submitQuiz that has read a quiz document whose questions are
\* missing, no list, or empty has ended with the internal error, with no
\* score, and has assembled and written no attempt.
C14_InvalidQuizState ==
    \A p \in Procs :
        (QuizRead(p, TRUE) /\ Unscorable(inv[p].quizData))
            => /\ inv[p].pc = "done"
               /\ inv[p].result = InvalidQuizState
               /\ NoAttemptWritten(p)

\* the empty list, the case a zero-question success would come from
C14_Witness ==
    \E p \in Procs :
        /\ QuizRead(p, TRUE)
        /\ "questions" \in DOMAIN inv[p].quizData
        /\ inv[p].quizData.questions = <<>>
        /\ inv[p].result = InvalidQuizState

\* the other two shapes are reached as well
C14_MissingReached ==
    \E p \in Procs : QuizRead(p, TRUE) /\ "questions" \notin DOMAIN inv[p].quizData
C14_NotAListReached ==
    \E p \in Procs :
        /\ QuizRead(p, TRUE)
        /\ "questions" \in DOMAIN inv[p].quizData
        /\ ~IsArray(inv[p].quizData.questions)

\* C15: a generateQuiz, submitQuiz or deleteQuiz invocation without caller
\* identity has ended with the unauthenticated error and has called nothing:
\* not the auth service, the secret manager, the model, or the store.
C15_UnauthenticatedFirst ==
    \A p \in Procs :
        (inv[p].op \in {"generateQuiz", "submitQuiz", "deleteQuiz"}
            /\ inv[p].req.auth = NoAuth)
            => /\ inv[p].pc = "done"
               /\ inv[p].result.code = "unauthenticated"
               /\ inv[p].calls = <<>>

\* the rejected request is also one that validation would have rejected
C15_Witness ==
    \E p \in Procs :
        /\ inv[p].op = "generateQuiz"
        /\ inv[p].req.auth = NoAuth
        /\ InvalidPayload(p)
        /\ inv[p].result.code = "unauthenticated"

C15_SubmitReached ==
    \E p \in Procs :
        /\ inv[p].op = "submitQuiz" /\ inv[p].req.auth = NoAuth
        /\ Falsy(inv[p].req.quizId)
C15_DeleteReached ==
    \E p \in Procs :
        /\ inv[p].op = "deleteQuiz" /\ inv[p].req.auth = NoAuth
        /\ inv[p].req.quizId \in BlankStrings

Privileged == {"deleteQuiz", "updateQuizStatus", "updateQuizVisibility"}

\* the caller of the privileged invocation v is signed in and lacks what the
\* operation asks of an administrator: the admin claim of the token for
\* deleteQuiz, the isAdmin field of the profile for the client's operations
LacksCapability(v) ==
    /\ v.op \in Privileged
    /\ v.req.auth # NoAuth
    /\ IF v.op = "deleteQuiz" THEN v.req.auth \notin AdminUsers ELSE ~v.req.isAdmin

Rejected(v) ==
    /\ v.pc = "done"
    /\ v.calls = <<>>
    /\ IF v.op = "deleteQuiz"
       THEN v.result.code = "permission-denied"
       ELSE v.result \in
                {ClientError("Unauthorized: Only administrators can change quiz "
                                \o what \o ".") : what \in {"status", "visibility"}}

\* the document an invocation targets is after the step what it was before
TargetUnchanged(v) ==
    IF v.req.quizId \in DOMAIN quizzes
    THEN v.req.quizId \in DOMAIN quizzes' /\ quizzes'[v.req.quizId] = quizzes[v.req.quizId]
    ELSE v.req.quizId \notin DOMAIN quizzes'

C18_Step(p) ==
    /\ LacksCapability(inv'[p]) => Rejected(inv'[p]) /\ TargetUnchanged(inv'[p])
    /\ (inv[p].op \in Privileged /\ inv[p].req.auth \notin AdminUsers)
            => TargetUnchanged(inv[p])

\* C18: a deleteQuiz, updateQuizStatus or updateQuizVisibility invocation of
\* a signed-in caller without the administrative capability is rejected at
\* its entry, before any call of the store, and the quiz it targets stays as
\* it was; and no step of such an invocation changes the targeted quiz while
\* the caller's token lacks the admin claim, whatever the profile says.
C18_PermissionDeniedBeforeMutation == [][\A p \in Procs : C18_Step(p)]_vars

\* a non-admin's deleteQuiz of a quiz that is there and global
C18_Witness ==
    \E p \in Procs :
        /\ LacksCapability(inv[p]) /\ inv[p].op = "deleteQuiz"
        /\ inv[p].req.quizId \in DOMAIN quizzes
        /\ quizzes[inv[p].req.quizId].visibility = "global"
        /\ inv[p].result.code = "permission-denied"

C18_StatusReached ==
    \E p \in Procs :
        /\ LacksCapability(inv[p]) /\ inv[p].op = "updateQuizStatus"
        /\ inv[p].req.quizId \in DOMAIN quizzes /\ inv[p].pc = "done"
C18_VisibilityReached ==
    \E p \in Procs :
        /\ LacksCapability(inv[p]) /\ inv[p].op = "updateQuizVisibility"
        /\ inv[p].req.quizId \in DOMAIN quizzes /\ inv[p].pc = "done"
\* the rules let a write of a caller without the claim through, as a no-op
C18_RulesReached ==
    \E p \in Procs :
        /\ inv[p].op \in {"updateQuizStatus", "updateQuizVisibility"}
        /\ inv[p].req.auth \notin AdminUsers
        /\ inv[p].pc = "done" /\ inv[p].result = ClientDone


(***************************************************************************)
(* Properties of the attempt records.                                      *)
(***************************************************************************)
\* the step ends a submitQuiz in slot p with its success response
Submitted(p) ==
    /\ inv[p].op = "submitQuiz" /\ inv[p].pc = "setAttempt"
    /\ inv'[p].pc = "done" /\ inv'[p].result.ok

C19_Step ==
    /\ \A id \in DOMAIN quizAttempts :
            id \in DOMAIN quizAttempts' /\ quizAttempts'[id] = quizAttempts[id]
    /\ \A p \in Procs :
            Submitted(p) =>
                /\ inv'[p].result.attemptId \notin DOMAIN quizAttempts
                /\ DOMAIN quizAttempts' =
                        DOMAIN quizAttempts \cup {inv'[p].result.attemptId}
                /\ quizAttempts'[inv'[p].result.attemptId].quizId = inv[p].req.quizId
                /\ quizzes' = quizzes
    /\ \A p \in Procs :
            (inv[p].op = "submitQuiz" /\ ~Submitted(p)) =>
                /\ DOMAIN quizAttempts' = DOMAIN quizAttempts
                /\ quizzes' = quizzes

\* C19: every step keeps each attempt document in place and as it was
\* written; a submitQuiz that succeeds adds exactly one attempt, under an id
\* the collection did not hold, and leaves the quizzes as they were; a step
\* of a submitQuiz that does not succeed adds none.
C19_AttemptsWriteOnce == [][C19_Step]_vars

\* a second attempt has been written next to an earlier one
C19_Witness ==
    \E p \in Procs :
        /\ inv[p].op = "submitQuiz" /\ inv[p].pc = "done" /\ inv[p].result.ok
        /\ Cardinality(DOMAIN quizAttempts) = 2
        /\ inv[p].result.attemptId \in DOMAIN quizAttempts
        /\ \A id \in DOMAIN quizAttempts : "answers" \in DOMAIN quizAttempts[id]
        /\ \E id \in DOMAIN quizAttempts : quizAttempts[id].answers # <<>>

\* (now - quizStartTime) in whole seconds, never below zero
ClampedSeconds(now, start) ==
    IF RoundSeconds(now - start) < 0 THEN 0 ELSE RoundSeconds(now - start)

\* C20 as the specification words it: the time spent of every attempt a
\* submitQuiz assembles, returns and persists is the clamped difference of
\* the server's clock and the quizStartTime of the request, never negative.
C20_ElapsedTime ==
    /\ \A p \in Procs :
        (inv[p].op = "submitQuiz" /\ inv[p].attempt # NoDoc)
            => /\ inv[p].attempt.timeSpent
                    \in {ClampedSeconds(now, inv[p].req.quizStartTime) : now \in Nows}
               /\ (inv[p].pc = "done" /\ inv[p].result.ok)
                    => inv[p].result.timeSpentSeconds = inv[p].attempt.timeSpent
    /\ \A id \in DOMAIN quizAttempts : quizAttempts[id].timeSpent >= 0


(***************************************************************************)
(* Properties of the quiz documents over their life.                       *)
(***************************************************************************)
\* the step ends a deleteQuiz in slot p with its success response
Deleted(p) ==
    /\ inv[p].op = "deleteQuiz" /\ inv[p].pc # "done"
    /\ inv'[p].pc = "done" /\ inv'[p].result.ok

C11_Step ==
    /\ \A id \in DOMAIN quizzes : id \in DOMAIN quizzes'
    /\ \A p \in Procs :
            Deleted(p) =>
                /\ inv[p].req.quizId \in DOMAIN quizzes'
                /\ quizzes'[inv[p].req.quizId].status = "deleted"
                /\ \A f \in DOMAIN quizzes[inv[p].req.quizId] \ {"status"} :
                        /\ f \in DOMAIN quizzes'[inv[p].req.quizId]
                        /\ quizzes'[inv[p].req.quizId][f] = quizzes[inv[p].req.quizId][f]

\* C11 as the specification words it: no step of generateQuiz, deleteQuiz,
\* updateQuizStatus or updateQuizVisibility takes a quiz document out of the
\* store, and a deleteQuiz that succeeds leaves the document in place with
\* status 'deleted' and its other fields as they were.
C11_SoftDeleteOnly == [][C11_Step]_vars

(***************************************************************************)
(* Properties of the response of generateQuiz and of the quiz it writes.   *)
(***************************************************************************)
ResponseFields ==
    {"id", "title", "category", "difficulty", "questions", "createdBy", "visibility",
     "quizType", "createdAt"}

\* C21 as the specification words it: when a generateQuiz has answered with
\* its quiz, every field of that quiz has the value the stored document has.
C21_ResponseEqualsStored ==
    \A p \in Procs :
        Generated(p) =>
            /\ inv[p].result.quiz.id \in DOMAIN quizzes
            /\ \A f \in ResponseFields :
                    inv[p].result.quiz[f] = quizzes[inv[p].result.quiz.id][f]

\* the same without createdAt, which holds
C21_ButCreatedAt ==
    \A p \in Procs :
        Generated(p) =>
            /\ inv[p].result.quiz.id \in DOMAIN quizzes
            /\ \A f \in ResponseFields \ {"createdAt"} :
                    inv[p].result.quiz[f] = quizzes[inv[p].result.quiz.id][f]

(***************************************************************************)
(* Properties of the errors the caller sees.                               *)
(***************************************************************************)
Failing(v) ==
    /\ v.op \in {"generateQuiz", "submitQuiz", "deleteQuiz"}
    /\ v.pc = "done"
    /\ ~v.result.ok

\* two invocations that went the same way on the same request and differ at
\* most in the error they ended with
SameButResult(v, w) == [v EXCEPT !.result = NoResult] = [w EXCEPT !.result = NoResult]

\* two failures of the same kind end with the same error
C22_SameKindSameError ==
    \A p, q \in Procs :
        (/\ Failing(inv[p]) /\ Failing(inv[q])
         /\ SameButResult(inv[p], inv[q])
         /\ inv[p].result.code = inv[q].result.code)
            => inv[p].result = inv[q].result

\* C22 as the specification words it: the error a failing generateQuiz,
\* submitQuiz or deleteQuiz ends with is a code and a message and nothing
\* else, and two failures of the same kind end with the same error whatever
\* the underlying causes were.
C22_ErrorOpacity ==
    /\ \A p \in Procs :
            Failing(inv[p]) => DOMAIN inv[p].result = {"ok", "code", "message"}
    /\ C22_SameKindSameError

(***************************************************************************)
(* Properties of concurrent invocations.                                   *)
(***************************************************************************)
\* the step in which accessSecretVersion hands the credential to slot p
ResolverReturns(p) ==
    /\ inv[p].op = "generateQuiz" /\ inv[p].pc = "accessSecret"
    /\ inv'[p].pc = "generateContent"

C23_Step ==
    \* the memoized value, once set, stays what it is
    /\ ~Falsy(geminiApiKey) => geminiApiKey' = geminiApiKey
    \* the resolver hands out the credential only while nothing is memoized
    /\ \A p \in Procs : ResolverReturns(p) => Falsy(geminiApiKey)
    \* an invocation that finds the memo set does not call the resolver
    /\ \A p \in Procs :
            (inv[p].op = "generateQuiz" /\ inv[p].pc = "getUser" /\ ~Falsy(geminiApiKey))
                => inv'[p].pc # "accessSecret"

\* C23 as the specification words it: in every interleaving of generateQuiz
\* invocations the secret manager returns the credential at most once, later
\* invocations use the memoized value, and the memoized value never changes.
C23_FetchOnce == [][C23_Step]_vars

\* the ids slot p has taken from the store for what it is about to write
HeldIds(v) ==
    IF v.op = "generateQuiz" /\ v.quizToSave # NoDoc
    THEN {v.quizToSave.id} \cup QuestionIds(v.quizToSave)
    ELSE IF v.op = "submitQuiz" /\ v.attempt # NoDoc THEN {v.attempt.id}
    ELSE {}

\* the step ends an invocation in slot p with its success response
Succeeds(p) == inv[p].pc \in {"setQuiz", "setAttempt"} /\ inv'[p].pc = "done" /\ inv'[p].result.ok

\* what the invocation in slot p answers when it runs alone: the quiz built
\* from its own request, the text it received and its ids, or the grading of
\* its own answers against the quiz it names, timed by the server's clock
Alone(p) ==
    IF inv[p].op = "generateQuiz"
    THEN {[ok |-> TRUE,
           quiz |-> quizToSave(inv[p].req, inv[p].req.auth,
                        finalVisibility(inv[p].isAdmin, requestedVisibility(inv[p].req)),
                        questions(Items(p), inv[p].req.quizType,
                            [i \in 1..Len(Items(p)) |-> inv[p].quizToSave.questions[i].id]),
                        inv[p].quizToSave.id)]}
    ELSE {SubmitResponse(quizAttemptData(inv[p].attempt.id, inv[p].req.auth,
                inv[p].req.quizId, quizzes[inv[p].req.quizId].questions,
                inv[p].req.userAnswers,
                RoundSeconds(now - inv[p].req.quizStartTime))) : now \in Nows}

C24_Step ==
    \* no document is overwritten, modified or removed
    /\ \A id \in DOMAIN quizzes : id \in DOMAIN quizzes' /\ quizzes'[id] = quizzes[id]
    /\ \A id \in DOMAIN quizAttempts :
            id \in DOMAIN quizAttempts' /\ quizAttempts'[id] = quizAttempts[id]
    \* ids held by different invocations differ, and none is in the store yet
    /\ \A p, q \in Procs :
            /\ p # q => HeldIds(inv'[p]) \cap HeldIds(inv'[q]) = {}
            /\ inv'[p].pc \in {"setQuiz", "setAttempt"}
                    => HeldIds(inv'[p]) \cap (DOMAIN quizzes' \cup DOMAIN quizAttempts') = {}
    \* a success writes exactly one document, under the invocation's own id,
    \* and answers what the invocation answers alone
    /\ \A p \in Procs :
            Succeeds(p) =>
                /\ Cardinality(DOMAIN quizzes') + Cardinality(DOMAIN quizAttempts')
                        = DocCount + 1
                /\ IF inv[p].op = "generateQuiz"
                   THEN DOMAIN quizzes' = DOMAIN quizzes \cup {inv[p].quizToSave.id}
                   ELSE DOMAIN quizAttempts' = DOMAIN quizAttempts \cup {inv[p].attempt.id}
                /\ inv'[p].result \in Alone(p)
    \* nothing else writes
    /\ (\A p \in Procs : ~Succeeds(p)) =>
            quizzes' = quizzes /\ quizAttempts' = quizAttempts

\* C24: in every interleaving of generateQuiz and submitQuiz invocations,
\* each success writes exactly one document under an id no other invocation
\* holds and no document has, no step overwrites or modifies a document, and
\* each success answers what the invocation would answer alone.
C24_IndependentInvocations == [][C24_Step]_vars

\* two submissions of one user for one quiz, both answered
C24_Witness ==
    /\ \A p \in Procs : Answered(p)
    /\ inv[1].req = inv[2].req
    /\ Cardinality(DOMAIN quizAttempts) = 2

\* two generateQuiz invocations, both answered, two quizzes stored
C24_GenerateReached ==
    /\ \A p \in Procs : Generated(p)
    /\ Cardinality(DOMAIN quizzes) = 2

(***************************************************************************)
(* The client's writes to the quizzes collection as the security rules     *)
(* meet them: any signed-in user may send any quiz object through saveQuiz *)
(* and any status or visibility through the two update operations.         *)
(***************************************************************************)
MaxQuizzesRules == 2

\* what a client may send for a stored quiz: its copy, or the copy with a
\* new title, a new status or a new visibility
RulesEdits(id) ==
    {ClientCopy(id), [title |-> "edited"] @@ ClientCopy(id)}
        \cup {[status |-> st] @@ ClientCopy(id) : st \in {"active", "deleted"}}
        \cup {[visibility |-> v] @@ ClientCopy(id) : v \in {"global", "private"}}

RulesSaveRequests ==
    {SaveRequest(auth, DraftQuiz) : auth \in Users}
        \cup {SaveRequest(auth, quiz) :
                auth \in Users, quiz \in UNION {RulesEdits(id) : id \in DOMAIN quizzes}}

NextRules ==
    \E p \in {1} :
        \/ SaveStart(p, RulesSaveRequests, MaxQuizzesRules)
        \/ SaveAdd(p)
        \/ SaveSet(p)
        \/ VisibilityStart(p, VisibilityRequests)
        \/ VisibilitySet(p)
        \/ StatusStart(p, StatusRequests)
        \/ StatusSet(p)
        \/ Return(p)

SpecRules == Init /\ [][NextRules]_vars

\* the document a pending setDoc of slot value v addresses
SetDocTarget(v) == IF v.op = "saveQuiz" THEN v.req.quiz.id ELSE v.req.quizId

\* slot p holds a setDoc of a caller without the admin token on a stored quiz
NonAdminUpdate(p) ==
    /\ inv[p].pc = "setDoc"
    /\ SetDocTarget(inv[p]) \in DOMAIN quizzes
    /\ ~isAdmin(inv[p].req.auth)

C25_Step(p) ==
    NonAdminUpdate(p) /\ inv'[p] # inv[p] =>
        LET id == SetDocTarget(inv[p])
            old == quizzes[id]
            new == quizzes'[id]
        IN  /\ id \in DOMAIN quizzes'
            /\ \A other \in DOMAIN quizzes \ {id} :
                    other \in DOMAIN quizzes' /\ quizzes'[other] = quizzes[other]
            /\ IF inv'[p].result = ClientDone
               THEN /\ Field(old, "createdBy") = inv[p].req.auth
                    /\ Field(old, "status") = "active"
                    /\ Field(new, "status") = "active"
                    /\ Field(new, "visibility") = Field(old, "visibility")
               ELSE new = old
            /\ Field(old, "status") = "deleted" => new = old /\ ~inv'[p].result.ok

\* C25: the rules permit an update by a caller without the admin token
\* only when the caller created the quiz, the quiz was active, stays active
\* and keeps its visibility; a refused update changes nothing, so status
\* and visibility survive every such update, and the creator of a deleted
\* quiz cannot update it.
C25_NonAdminUpdates == [][\A p \in Procs : C25_Step(p)]_vars

\* alice has changed the title of her own active quiz
C25_Witness ==
    /\ inv[1].op = "saveQuiz"
    /\ inv[1].pc = "done"
    /\ inv[1].result = ClientDone
    /\ inv[1].req.auth = "alice"
    /\ Field(inv[1].req.quiz, "id") \in DOMAIN quizzes
    /\ inv[1].req.quiz.title = "edited"
    /\ quizzes[inv[1].req.quiz.id].title = "edited"
    /\ quizzes[inv[1].req.quiz.id].createdBy = "alice"

\* alice was refused a new title for her own deleted quiz
C25_DeletedReached ==
    /\ inv[1].op = "saveQuiz"
    /\ inv[1].result = PermissionDenied
    /\ inv[1].req.auth = "alice"
    /\ Field(inv[1].req.quiz, "id") \in DOMAIN quizzes
    /\ inv[1].req.quiz.title = "edited"
    /\ quizzes[inv[1].req.quiz.id].createdBy = "alice"
    /\ quizzes[inv[1].req.quiz.id].status = "deleted"
    /\ quizzes[inv[1].req.quiz.id].title = "draft"

\* alice was refused a new title for root's active quiz
C25_NotCreatorReached ==
    /\ inv[1].op = "saveQuiz"
    /\ inv[1].result = PermissionDenied
    /\ inv[1].req.auth = "alice"
    /\ Field(inv[1].req.quiz, "id") \in DOMAIN quizzes
    /\ inv[1].req.quiz.title = "edited"
    /\ quizzes[inv[1].req.quiz.id].createdBy = "root"
    /\ quizzes[inv[1].req.quiz.id].status = "active"

\* alice, admin by her profile only, was refused a change of visibility
C25_VisibilityReached ==
    /\ inv[1].op = "updateQuizVisibility"
    /\ inv[1].result = PermissionDenied
    /\ inv[1].req.auth = "alice"
    /\ inv[1].req.quizId \in DOMAIN quizzes
    /\ quizzes[inv[1].req.quizId].createdBy = "alice"
    /\ quizzes[inv[1].req.quizId].status = "active"
    /\ quizzes[inv[1].req.quizId].visibility # inv[1].req.newVisibility

\* the text is a JSON array inside a code fence opened by marker
FencedArray(text, marker) ==
    /\ text.doc.k = "array"
    /\ Trim(text.chars) = marker \o <<"\n", DocMark, "\n">> \o Fence

\* the text received in slot p was parsed to the value of its body
ParsedAsBody(p) ==
    /\ JsonParse(inv[p].text) = [ok |-> TRUE, val |-> inv[p].text.doc]
    /\ inv[p].result # Err("internal", "Invalid JSON format from AI. Please try again.")

\* C26: a JSON array inside a code fence, opened with or without a language
\* tag, is parsed to that same array, and a text that does not begin with a
\* fence marker is only trimmed.
C26_FenceStripping ==
    \A p \in Procs :
        Received(p) =>
            /\ (\E marker \in {Fence, FenceJson} : FencedArray(inv[p].text, marker))
                    => ParsedAsBody(p)
            /\ ~StartsWith(Trim(inv[p].text.chars), Fence)
                    => Sanitize(inv[p].text.chars) = Trim(inv[p].text.chars)

\* the same for fences opened with the json tag only
C26_JsonFenceOnly ==
    \A p \in Procs :
        Received(p) =>
            /\ FencedArray(inv[p].text, FenceJson) => ParsedAsBody(p)
            /\ ~StartsWith(Trim(inv[p].text.chars), Fence)
                    => Sanitize(inv[p].text.chars) = Trim(inv[p].text.chars)

\* an array in a fence without language tag was refused as invalid JSON
C26_BareFenceRefused ==
    \E p \in Procs :
        /\ Received(p)
        /\ FencedArray(inv[p].text, Fence)
        /\ inv[p].result = Err("internal", "Invalid JSON format from AI. Please try again.")

\* an array in a json fence was parsed and its quiz stored
C26_JsonFenceReached ==
    \E p \in Procs :
        /\ Received(p)
        /\ FencedArray(inv[p].text, FenceJson)
        /\ Generated(p)

\* the quiz document the invocation in slot p has written
Written(p) == quizzes[inv[p].result.quiz.id]

C27_Normalized(p) ==
    LET quiz == Written(p)
        req == inv[p].req
    IN  /\ Whole(Len(quiz.questions)) = req.numberOfQuestions
        /\ Len(quiz.questions) = Len(Items(p))
        /\ \A i \in 1..Len(quiz.questions) :
              /\ quiz.questions[i].text = Stored(Prop(Items(p)[i], "question"))
              /\ quiz.questions[i].options = Stored(Prop(Items(p)[i], "options"))
              /\ quiz.questions[i].correctAnswer = Stored(Prop(Items(p)[i], "answer"))
              /\ quiz.questions[i].type = req.quizType
        /\ \A i, j \in 1..Len(quiz.questions) :
              i # j => quiz.questions[i].id # quiz.questions[j].id
        /\ quiz.quizType = req.quizType

MaxQuizzesDelRace == 1

DelRaceSaveRequests == {SaveRequest("root", [visibility |-> "global"] @@ DraftQuiz)}

DelRaceVisibilityRequests ==
    {[auth |-> auth, isAdmin |-> TRUE, quizId |-> id, newVisibility |-> v] :
        auth \in Users, id \in DOMAIN quizzes, v \in {"global", "private"}}

DelRaceDelRequests == {DelRequest("root", id) : id \in DOMAIN quizzes}

NextDelRace ==
    \E p \in Procs :
        \/ SaveStart(p, DelRaceSaveRequests, MaxQuizzesDelRace)
        \/ SaveAdd(p)
        \/ VisibilityStart(p, DelRaceVisibilityRequests)
        \/ VisibilitySet(p)
        \/ DelStart(p, DelRaceDelRequests)
        \/ DelCheck(p)
        \/ DelUpdate(p)
        \/ Return(p)

SpecDelRace == Init /\ [][NextDelRace]_vars

\* the step is the status write of the deleteQuiz in slot p
StatusWrite(p) ==
    /\ inv[p].op = "deleteQuiz"
    /\ inv[p].pc = "updateQuiz"
    /\ inv[p].req.quizId \in DOMAIN quizzes
    /\ quizzes'[inv[p].req.quizId] # quizzes[inv[p].req.quizId]

\* the step is the visibility check of the deleteQuiz in slot p, made on a
\* quiz that is not global
ChecksNonGlobal(p) ==
    /\ inv[p].op = "deleteQuiz"
    /\ inv[p].pc = "getQuiz"
    /\ inv'[p].pc # "getQuiz"
    /\ inv[p].req.quizId \in DOMAIN quizzes
    /\ Field(quizzes[inv[p].req.quizId], "visibility") # "global"

NotGlobalDenied(id) ==
    Err("permission-denied",
        "You can only delete global quizzes. Quiz " \o id \o " is not global.")

C28_Step(p) ==
    /\ StatusWrite(p) => Field(quizzes[inv[p].req.quizId], "visibility") = "global"
    /\ ChecksNonGlobal(p) =>
          /\ quizzes' = quizzes
          /\ inv'[p].pc = "done"
          /\ inv'[p].result \in
                {NotGlobalDenied(inv[p].req.quizId)}
                    \cup {DeleteFailed(error) : error \in StoreErrors}

\* C28: deleteQuiz writes status 'deleted' only to a quiz that is global at
\* the moment of the write, whatever updateQuizVisibility does beside it,
\* and a deleteQuiz that finds its quiz not global ends with
\* permission-denied and leaves the quiz unchanged.
C28_MarksOnlyGlobal == [][\A p \in Procs : C28_Step(p)]_vars

\* the part of C28 about the check alone: a quiz found not global is refused
C28_NonGlobalRefused ==
    [][\A p \in Procs :
        ChecksNonGlobal(p) =>
            /\ quizzes' = quizzes
            /\ inv'[p].pc = "done"
            /\ inv'[p].result \in
                  {NotGlobalDenied(inv[p].req.quizId)}
                      \cup {DeleteFailed(error) : error \in StoreErrors}]_vars

\* a private quiz carries status 'deleted' written by deleteQuiz
C28_PrivateDeleted ==
    \E p \in Procs :
        /\ inv[p].op = "deleteQuiz"
        /\ inv[p].pc = "done"
        /\ inv[p].result.ok
        /\ Field(quizzes[inv[p].req.quizId], "visibility") = "private"
        /\ Field(quizzes[inv[p].req.quizId], "status") = "deleted"

\* a deleteQuiz on a private quiz has been refused
C28_RefusedReached ==
    \E p \in Procs :
        /\ inv[p].op = "deleteQuiz"
        /\ inv[p].pc = "done"
        /\ inv[p].result = NotGlobalDenied(inv[p].req.quizId)
        /\ Field(quizzes[inv[p].req.quizId], "visibility") = "private"
        /\ Field(quizzes[inv[p].req.quizId], "status") = "active"

(***************************************************************************)
(* generateQuiz and submitQuiz called with payloads that name an owner:    *)
(* a createdBy or userId field beside the fields the handlers read.        *)
(***************************************************************************)
MaxQuizzesIdentity == 2
MaxAttemptsIdentity == 2

Callers == Users \cup {NoAuth}

IdentityGenRequests ==
    {GenRequest(auth, Whole(1), "true_false", Absent) : auth \in Callers}
        \cup {[createdBy |-> owner, userId |-> owner]
                    @@ GenRequest(auth, Whole(1), "true_false", Absent) :
                auth \in Callers, owner \in Users}

IdentitySubRequests ==
    {SubRequest(auth, id, <<[questionId |-> q, selectedOption |-> sTrue]>>, 1400) :
        auth \in Callers, id \in DOMAIN quizzes,
        q \in UNION {QuestionIds(quizzes[i]) : i \in DOMAIN quizzes}}
        \cup {[createdBy |-> owner, userId |-> owner]
                    @@ SubRequest(auth, id, <<[questionId |-> q, selectedOption |-> sTrue]>>, 1400) :
                auth \in Callers, owner \in Users, id \in DOMAIN quizzes,
                q \in UNION {QuestionIds(quizzes[i]) : i \in DOMAIN quizzes}}

NextIdentity ==
    \E p \in {1} :
        \/ GenStart(p, IdentityGenRequests, MaxQuizzesIdentity)
        \/ GenGetUser(p)
        \/ GenSecret(p)
        \/ GenRespond(p, RaceTexts)
        \/ GenPersist(p)
        \/ SubStart(p, IdentitySubRequests, MaxAttemptsIdentity)
        \/ SubGrade(p)
        \/ SubPersist(p)
        \/ Return(p)

SpecIdentity == Init /\ [][NextIdentity]_vars

\* the invocation whose write the step is
Writer(op, pc) == {p \in Procs : inv[p].op = op /\ inv[p].pc = pc /\ inv'[p].pc = "done"}

C29_Step ==
    /\ \A id \in DOMAIN quizzes' \ DOMAIN quizzes :
          \E p \in Writer("generateQuiz", "setQuiz") :
              /\ inv[p].req.auth \in Users
              /\ quizzes'[id].createdBy = inv[p].req.auth
              /\ inv'[p].result.quiz.id = id
              /\ inv'[p].result.quiz.createdBy = inv[p].req.auth
    /\ \A id \in DOMAIN quizAttempts' \ DOMAIN quizAttempts :
          \E p \in Writer("submitQuiz", "setAttempt") :
              /\ inv[p].req.auth \in Users
              /\ quizAttempts'[id].userId = inv[p].req.auth
              /\ inv'[p].result.attemptId = id
    /\ \A id \in DOMAIN quizzes :
          id \in DOMAIN quizzes' /\ quizzes'[id].createdBy = quizzes[id].createdBy
    /\ \A id \in DOMAIN quizAttempts :
          id \in DOMAIN quizAttempts' /\ quizAttempts'[id].userId = quizAttempts[id].userId

\* C29: the createdBy of every quiz generateQuiz writes and the userId of
\* every attempt submitQuiz writes is the id of the authenticated caller of
\* that invocation, whatever createdBy or userId the payload carries, and
\* stays so.
C29_IdentityFromAuthentication == [][C29_Step]_vars

\* alice's quiz, generated from a payload that names root as its owner
C29_Witness ==
    /\ Generated(1)
    /\ inv[1].req.auth = "alice"
    /\ Field(inv[1].req, "createdBy") = "root"
    /\ quizzes[inv[1].result.quiz.id].createdBy = "alice"

\* alice's attempt, submitted with a payload that names root as its user
C29_AttemptReached ==
    /\ Answered(1)
    /\ inv[1].req.auth = "alice"
    /\ Field(inv[1].req, "userId") = "root"
    /\ quizAttempts[inv[1].result.attemptId].userId = "alice"

\* the numbers of a score are in their bounds
ScoreInBounds(correct, incorrect, total) ==
    /\ 0 <= correct
    /\ correct <= total
    /\ incorrect >= 0

\* the response of the submission in slot p and the attempt it has persisted
\* carry a score in its bounds
C30_Bounded(p) ==
    /\ ScoreInBounds(inv[p].result.score.correct, inv[p].result.score.incorrect,
            inv[p].result.score.total)
    /\ inv[p].result.attemptId \in DOMAIN quizAttempts
    /\ LET attempt == quizAttempts[inv[p].result.attemptId]
       IN  ScoreInBounds(attempt.score, attempt.totalQuestions - attempt.score,
                attempt.totalQuestions)

\* no two answers of the submission in slot p name the same question
OneAnswerEach(p) ==
    \A i, j \in 1..Len(Answers(p)) :
        i # j => Answers(p)[i].questionId # Answers(p)[j].questionId

\* C30: for every successful submitQuiz, also with several answers for one
\* questionId or more answers than questions, the response and the
\* persisted attempt have 0 <= correct <= total and incorrect >= 0.
C30_ScoreBounds == \A p \in Procs : Answered(p) => C30_Bounded(p)

\* the same for submissions with at most one answer per questionId
C30_OneAnswerEach == \A p \in Procs : (Answered(p) /\ OneAnswerEach(p)) => C30_Bounded(p)

\* two right answers for the one question of a quiz: 2 of 1 correct, -1 incorrect
C30_Overcounted ==
    \E p \in Procs :
        /\ Answered(p)
        /\ inv[p].result.score = [correct |-> 2, incorrect |-> -1, total |-> 1]
        /\ quizAttempts[inv[p].result.attemptId].score = 2
        /\ quizAttempts[inv[p].result.attemptId].totalQuestions = 1

\* more answers than questions, each question answered once, with bounds kept
C30_ManyAnswersReached ==
    \E p \in Procs :
        /\ Answered(p)
        /\ OneAnswerEach(p)
        /\ Len(Answers(p)) > Len(Key(p))
        /\ inv[p].result.score.correct = Len(Key(p))

====
